---- MODULE Spec2Model ----
(***************************************************************************)
(* mri-suite: series geometry, coordinate mapping, the two segmentation    *)
(* registrars and the Study cache.                                         *)
(*                                                                         *)
(* Lengths are integers.  Positions of slices are counted in units of      *)
(* half the sortedness tolerance (1e-5 mm = Tol units), so that pairs of   *)
(* projections that differ by less than the tolerance exist.  The          *)
(* registrars never compare a length with an absolute number, so their     *)
(* inputs are in any one unit.  Real numbers that are not whole are kept   *)
(* as a numerator over a positive denominator.                             *)
(***************************************************************************)
EXTENDS Integers, Sequences, FiniteSets, TLC

VARIABLES
    \* ---- DicomDataset (one Series object and the list it was built from)
    dcm_list,       \* the caller's list object handed to DicomDataset(...)
    force,          \* the force flag of the construction
    dataset,        \* DicomDataset.dataset
    series_state,   \* "idle" (no series in this run), "none", "constructed", "failed"
    series_error,   \* the exception of the last operation on the series, or "ok"
    sort_calls,     \* number of DicomDataset.sort() calls made so far
    prev_dataset,   \* DicomDataset.dataset as it was when the last sort() began
    last_op         \* "none", "construct", "sort"

VARIABLES
    \* ---- one Study and the directories its series are read from
    paths,            \* Study.<modality>_images_path: set or None
    files,            \* what is on disk at each path
    cache,            \* Study.cor_pdf_images, cor_t2_images, sag_t2_images, tra_pdf_images
    loads,            \* per modality, the series loaded from disk so far
    segmentation,     \* Study.segmentation
    reference_points, \* Study.<modality>_reference_points
    call,             \* the last call on the Study: [op, modality, error]
    result_series,    \* what the last read_image returned
    result_pixels,    \* what the last registrar call returned
    lm                \* locals of the landmark registrar call in progress

series_vars == <<dcm_list, force, dataset, series_state, series_error,
                 sort_calls, prev_dataset, last_op>>

study_vars == <<paths, files, cache, loads, segmentation, reference_points,
                call, result_series, result_pixels, lm>>

VARIABLES
    \* ---- one landmark file and the result of loading it
    json_obj,         \* the parsed landmark file given to load_from_json_obj
    load_result       \* what ReferencePoints.load_from_json_obj did with it

loader_vars == <<json_obj, load_result>>

VARIABLES
    \* ---- one call of build_study_dict_concurrent
    archive_paths,    \* the archives given as paths, one worker thread each
    workers,          \* per worker: where it is in process_single_file, its local map
    study_map,        \* the shared dictionary
    lock,             \* the thread holding the lock, or NoHolder
    merge_order,      \* the workers in the order in which their merges ended
    index_result      \* what build_study_dict_concurrent returned

index_vars == <<archive_paths, workers, study_map, lock, merge_order, index_result>>

VARIABLES
    \* ---- threads that call Study.read_image on the one Study
    threads,          \* per thread: where it is in read_image, its locals, its result
    slot_object,      \* per cache attribute: which load made the object it holds
    race_mod          \* the modality the threads read

thread_vars == <<threads, slot_object, race_mod>>

VARIABLES
    \* ---- DicomDataset.infer_slice_normal on the one Series
    normal_result     \* what the last infer_slice_normal call did

normal_vars == <<normal_result>>

VARIABLES
    \* ---- one call of patient_to_image_coordinate
    coord_series,     \* the slice list of the series given
    coord_point,      \* the patient coordinate given
    coord_result      \* the locals of the call at its return, and what it returned

coord_vars == <<coord_series, coord_point, coord_result>>

ext_vars == <<loader_vars, index_vars, thread_vars, normal_vars, coord_vars>>

vars == <<series_vars, study_vars, ext_vars>>

(***************************************************************************)
(* Bounds of the model.                                                    *)
(***************************************************************************)
MaxSlices == 3      \* longest slice list handed to a constructor
MaxPos == 3         \* slice positions are 0..MaxPos along the z axis
MaxSortCalls == 2   \* sort() calls followed per series
MaxArchives == 2    \* archives handed to build_study_dict_concurrent
MaxReads == 2       \* read_image calls followed per thread

(***************************************************************************)
(* Vectors.                                                                *)
(***************************************************************************)
Dot(a, b) == a[1] * b[1] + a[2] * b[2] + a[3] * b[3]

Cross(a, b) == << a[2] * b[3] - a[3] * b[2],
                  a[3] * b[1] - a[1] * b[3],
                  a[1] * b[2] - a[2] * b[1] >>

VSub(a, b) == << a[1] - b[1], a[2] - b[2], a[3] - b[3] >>

VAdd(a, b) == << a[1] + b[1], a[2] + b[2], a[3] + b[3] >>

VScale(k, a) == << k * a[1], k * a[2], k * a[3] >>

Abs(n) == IF n < 0 THEN -n ELSE n

\* The element of a set of one element; { e(x) : x \in {v} } under Only
\* binds x to the value v once.
Only(S) == CHOOSE x \in S : TRUE

(***************************************************************************)
(* Slices (pydicom Datasets).  ImageOrientationPatient is the pair of row  *)
(* and column direction cosines; the orientations used are axis aligned.   *)
(***************************************************************************)
IopAxial == [row |-> <<1, 0, 0>>, col |-> <<0, 1, 0>>]      \* normal +z
IopAxialFlipped == [row |-> <<1, 0, 0>>, col |-> <<0, -1, 0>>] \* normal -z
IopCoronal == [row |-> <<1, 0, 0>>, col |-> <<0, 0, -1>>]   \* normal +y

\* A slice with every tag the core reads; shape is pixel_array.shape
\* (rows, columns), PixelSpacing is (row spacing, column spacing).
SliceAt(sop, ipp, iop, spacing, shape) ==
    [ SOPInstanceUID |-> sop,
      hasIPP |-> TRUE,
      ImagePositionPatient |-> ipp,
      ImageOrientationPatient |-> iop,
      PixelSpacing |-> spacing,
      hasSliceThickness |-> TRUE,
      SliceThickness |-> 1,
      SeriesInstanceUID |-> "series1",
      StudyInstanceUID |-> "study1",
      shape |-> shape,
      Modality |-> "MR" ]

Slice(sop, z, iop) == SliceAt(sop, <<0, 0, z>>, iop, <<1, 1>>, <<2, 2>>)

\* One slice that deviates from the others of its list in one tag.
Deviations == {"SeriesInstanceUID", "StudyInstanceUID", "shape", "SEG",
               "noIPP", "orientation"}

Deviate(s, d) ==
    CASE d = "SeriesInstanceUID" -> [s EXCEPT !.SeriesInstanceUID = "series2"]
      [] d = "StudyInstanceUID"  -> [s EXCEPT !.StudyInstanceUID = "study2"]
      [] d = "shape"             -> [s EXCEPT !.shape = <<2, 3>>]
      [] d = "SEG"               -> [s EXCEPT !.Modality = "SEG"]
      [] d = "noIPP"             -> [s EXCEPT !.hasIPP = FALSE]
      [] d = "orientation"       -> [s EXCEPT !.ImageOrientationPatient = IopAxialFlipped]
      [] OTHER                   -> s

\* The slice lists a constructor is given: any length up to MaxSlices, any
\* positions in any order, at most one deviating slice.
SliceLists ==
    UNION { { [i \in 1..n |->
                 IF i = dev[2] THEN Deviate(Slice(i, zs[i], IopAxial), dev[1])
                               ELSE Slice(i, zs[i], IopAxial)]
              : zs \in [1..n -> 0..MaxPos],
                dev \in {<<"none", 0>>} \cup (Deviations \X (1..n)) }
            : n \in 0..MaxSlices }

(***************************************************************************)
(* dicom_dataset.py                                                        *)
(***************************************************************************)
\* _check_types without its pixel_array shape check.
_check_types_no_shape(l) ==
    IF Len(l) = 0 THEN "ValueError:empty"
    ELSE IF ~l[1].hasIPP THEN "ValueError:ImagePositionPatient"
    ELSE IF \E i \in 1..Len(l) : l[i].Modality = "SEG" THEN "TypeError:SEG"
    ELSE IF ~(\A i \in 1..Len(l) : l[i].SeriesInstanceUID = l[1].SeriesInstanceUID)
         THEN "ValueError:SeriesInstanceUID"
    ELSE IF ~(\A i \in 1..Len(l) : l[i].StudyInstanceUID = l[1].StudyInstanceUID)
         THEN "ValueError:StudyInstanceUID"
    ELSE "ok"

\* _check_types: the first check that fails, or "ok".
_check_types(l) ==
    IF Len(l) = 0 THEN "ValueError:empty"
    ELSE IF ~l[1].hasIPP THEN "ValueError:ImagePositionPatient"
    ELSE IF \E i \in 1..Len(l) : l[i].Modality = "SEG" THEN "TypeError:SEG"
    ELSE IF ~(\A i \in 1..Len(l) : l[i].SeriesInstanceUID = l[1].SeriesInstanceUID)
         THEN "ValueError:SeriesInstanceUID"
    ELSE IF ~(\A i \in 1..Len(l) : l[i].StudyInstanceUID = l[1].StudyInstanceUID)
         THEN "ValueError:StudyInstanceUID"
    ELSE IF ~(\A i \in 1..Len(l) : l[i].shape = l[1].shape)
         THEN "ValueError:shape"
    ELSE "ok"

\* The normal both helpers take from the first slice (not normalised).
SliceNormal(ds0) ==
    Cross(ds0.ImageOrientationPatient.row, ds0.ImageOrientationPatient.col)

\* positions[i] of _sort_dicom_series and _is_sorted.
Positions(series) ==
    [i \in 1..Len(series) |->
        Dot(VSub(series[i].ImagePositionPatient, series[1].ImagePositionPatient),
            SliceNormal(series[1]))]

\* Both helpers raise ValueError when a slice they read has no
\* ImagePositionPatient.
MissingIPP(series) == \E i \in 1..Len(series) : ~series[i].hasIPP

\* An insertion that puts a pair in front of the pairs of equal key.
RECURSIVE InsertByKeyUnstable(_, _)
InsertByKeyUnstable(sorted, pair) ==
    IF sorted = <<>> THEN <<pair>>
    ELSE IF pair[1] <= Head(sorted)[1] THEN <<pair>> \o sorted
    ELSE <<Head(sorted)>> \o InsertByKeyUnstable(Tail(sorted), pair)

\* An insertion that orders the keys descending.
RECURSIVE InsertByKeyDescending(_, _)
InsertByKeyDescending(sorted, pair) ==
    IF sorted = <<>> THEN <<pair>>
    ELSE IF pair[1] > Head(sorted)[1] THEN <<pair>> \o sorted
    ELSE <<Head(sorted)>> \o InsertByKeyDescending(Tail(sorted), pair)

\* sorted(pairs, key = position): a stable insertion of each pair in turn,
\* behind every pair whose key is not greater.
RECURSIVE InsertByKey(_, _)
InsertByKey(sorted, pair) ==
    IF sorted = <<>> THEN <<pair>>
    ELSE IF pair[1] < Head(sorted)[1] THEN <<pair>> \o sorted
    ELSE <<Head(sorted)>> \o InsertByKey(Tail(sorted), pair)

RECURSIVE SortedByKey(_)
SortedByKey(pairs) ==
    IF pairs = <<>> THEN <<>>
    ELSE InsertByKey(SortedByKey(SubSeq(pairs, 1, Len(pairs) - 1)), pairs[Len(pairs)])

_sort_dicom_series_raises(series) == series # <<>> /\ MissingIPP(series)

_sort_dicom_series(series) ==
    IF series = <<>> THEN series
    ELSE LET positions == Positions(series)
             tuples == [i \in 1..Len(series) |-> <<positions[i], series[i]>>]
             sorted_tuples == SortedByKey(tuples)
         IN  [i \in 1..Len(series) |-> sorted_tuples[i][2]]

Tol == 2    \* tol = 1e-5 mm, in position units

_is_sorted_raises(series) == Len(series) > 1 /\ MissingIPP(series)

\* A check that also accepts the series that fall within the tolerance.
_is_sorted_either(series) ==
    IF Len(series) <= 1 THEN TRUE
    ELSE \/ \A i \in 1..(Len(series) - 1) :
              Positions(series)[i + 1] - Positions(series)[i] >= -Tol
         \/ \A i \in 1..(Len(series) - 1) :
              Positions(series)[i] - Positions(series)[i + 1] >= -Tol

_is_sorted(series) ==
    IF Len(series) <= 1 THEN TRUE
    ELSE LET positions == Positions(series)
             is_increasing == \A i \in 1..(Len(series) - 1) :
                                 positions[i + 1] - positions[i] >= -Tol
         IN  is_increasing

(***************************************************************************)
(* DicomDataset                                                            *)
(***************************************************************************)
\* DicomDataset.__init__(dcm_list, force): the outcome as a record
\* [error, dataset, sorts], error = "ok" when the object is constructed.
\* A constructor that validates and orders the list even when forced.
DicomDatasetInitUnforced(l, f) ==
    IF _check_types(l) # "ok"
    THEN [error |-> _check_types(l), dataset |-> <<>>, sorts |-> 0]
    ELSE IF _is_sorted_raises(l)
         THEN [error |-> "ValueError:ImagePositionPatient", dataset |-> <<>>, sorts |-> 0]
    ELSE IF ~_is_sorted(l)
         THEN [error |-> "ok", dataset |-> _sort_dicom_series(l), sorts |-> 1]
    ELSE [error |-> "ok", dataset |-> l, sorts |-> 0]

DicomDatasetInit(l, f) ==
    IF f THEN [error |-> "ok", dataset |-> l, sorts |-> 0]
    ELSE IF _check_types(l) # "ok"
         THEN [error |-> _check_types(l), dataset |-> <<>>, sorts |-> 0]
    ELSE IF _is_sorted_raises(l)
         THEN [error |-> "ValueError:ImagePositionPatient", dataset |-> <<>>, sorts |-> 0]
    ELSE IF ~_is_sorted(l)
         THEN [error |-> "ok", dataset |-> _sort_dicom_series(l), sorts |-> 1]
    ELSE [error |-> "ok", dataset |-> l, sorts |-> 0]

\* No Study in the run.
IdleStudy ==
    /\ paths = <<>>
    /\ files = <<>>
    /\ cache = <<>>
    /\ loads = <<>>
    /\ segmentation = <<>>
    /\ reference_points = <<>>
    /\ call = <<>>
    /\ result_series = <<>>
    /\ result_pixels = <<>>
    /\ lm = <<>>

\* No landmark file in the run.
IdleLoader ==
    /\ json_obj = <<>>
    /\ load_result = <<>>

\* No archive index in the run.
IdleIndex ==
    /\ archive_paths = <<>>
    /\ workers = <<>>
    /\ study_map = <<>>
    /\ lock = 0
    /\ merge_order = <<>>
    /\ index_result = <<>>

\* No threads in the run.
IdleThreads ==
    /\ threads = <<>>
    /\ slot_object = <<>>
    /\ race_mod = "none"

\* No infer_slice_normal call in the run.
IdleNormal == normal_result = <<>>

\* No free-standing patient_to_image_coordinate call in the run.
IdleCoord ==
    /\ coord_series = <<>>
    /\ coord_point = <<>>
    /\ coord_result = <<>>

IdleExt == IdleLoader /\ IdleIndex /\ IdleThreads /\ IdleNormal /\ IdleCoord

\* No free-standing Series in the run.
IdleSeries ==
    /\ dcm_list = <<>>
    /\ force = FALSE
    /\ dataset = <<>>
    /\ series_state = "idle"
    /\ series_error = "ok"
    /\ sort_calls = 0
    /\ prev_dataset = <<>>
    /\ last_op = "none"

InitSeries ==
    /\ dcm_list \in SliceLists
    /\ force \in BOOLEAN
    /\ dataset = <<>>
    /\ series_state = "none"
    /\ series_error = "ok"
    /\ sort_calls = 0
    /\ prev_dataset = <<>>
    /\ last_op = "none"
    /\ IdleStudy
    /\ IdleExt

\* series = DicomDataset(dcm_list, force)
Construct ==
    /\ series_state = "none"
    /\ \E r \in {DicomDatasetInit(dcm_list, force)} :
           /\ series_state' = IF r.error = "ok" THEN "constructed" ELSE "failed"
           /\ series_error' = r.error
           /\ dataset' = r.dataset
           /\ sort_calls' = r.sorts
           /\ prev_dataset' = IF r.sorts = 1 THEN dcm_list ELSE <<>>
    /\ last_op' = "construct"
    /\ UNCHANGED <<dcm_list, force, study_vars, ext_vars>>

\* series.sort()
Sort ==
    /\ series_state = "constructed"
    /\ sort_calls < MaxSortCalls
    /\ IF _sort_dicom_series_raises(dataset)
       THEN /\ series_error' = "ValueError:ImagePositionPatient"
            /\ UNCHANGED <<dataset, prev_dataset, sort_calls>>
       ELSE /\ series_error' = "ok"
            /\ prev_dataset' = dataset
            /\ dataset' = _sort_dicom_series(dataset)
            /\ sort_calls' = sort_calls + 1
    /\ last_op' = "sort"
    /\ UNCHANGED <<dcm_list, force, series_state, study_vars, ext_vars>>

NextSeries == Construct \/ Sort

SpecSeries == InitSeries /\ [][NextSeries]_vars

(***************************************************************************)
(* structs.py: ModalityType, Segmentation, ReferencePoints, Study          *)
(***************************************************************************)
COR_PDF == "cor_pdf"
COR_T1 == "cor_t1"
TRA_PDF == "tra_pdf"
SAG_T2 == "sag_t2"

ModalityType == {COR_PDF, COR_T1, TRA_PDF, SAG_T2}

\* The fields of Study that hold reference points.
ReferencePointFields == {COR_T1, SAG_T2, TRA_PDF}

landmark_names == << "lat_acr_border", "lat_clav_border", "apical_humerus",
                     "lat_glen_sup", "lat_glen_inf", "proc_cora_tip" >>

\* Optional[DicomDataset]
NoSeries == [loaded |-> FALSE, dataset |-> <<>>]

SomeSeries(ds) == [loaded |-> TRUE, dataset |-> ds]

\* A label volume: numpy array of a dtype and a shape, indexed from 0.
Grid(shape) == (0..(shape[1] - 1)) \X (0..(shape[2] - 1)) \X (0..(shape[3] - 1))

NoPixels == [dtype |-> "none", shape |-> <<0, 0, 0>>, data |-> <<>>]

\* A map that keeps the COR_T1 series in the slot of COR_PDF.
cache_attr_shared(mod) ==
    CASE mod = COR_PDF -> "cor_pdf_images"
      [] mod = COR_T1  -> "cor_pdf_images"
      [] mod = SAG_T2  -> "sag_t2_images"
      [] mod = TRA_PDF -> "tra_pdf_images"

\* modality_map of Study.read_image: the cache attribute of a modality.
cache_attr(mod) ==
    CASE mod = COR_PDF -> "cor_pdf_images"
      [] mod = COR_T1  -> "cor_t2_images"
      [] mod = SAG_T2  -> "sag_t2_images"
      [] mod = TRA_PDF -> "tra_pdf_images"

CacheAttrs == {"cor_pdf_images", "cor_t2_images", "sag_t2_images", "tra_pdf_images"}

\* The cache test of read_image; one that never finds the series cached.
is_cached_never(c, mod) == FALSE

is_cached(c, mod) == c[cache_attr(mod)].loaded

\* DicomDataset.read_from_files(path): [error, dataset].
read_from_files(dir) ==
    IF ~dir.exists THEN [error |-> "FileNotFoundError", dataset |-> <<>>]
    ELSE Only({ [error |-> r.error, dataset |-> r.dataset]
                : r \in {DicomDatasetInit(dir.slices, FALSE)} })

\* A read_image that keeps only the series it read last.
read_image_evicting(c, h, mod) ==
    IF is_cached(c, mod)
    THEN [error |-> "ok", hit |-> TRUE, series |-> c[cache_attr(mod)],
          cache |-> c, loads |-> h]
    ELSE IF ~paths[mod].set
    THEN [error |-> "ValueError:path not set", hit |-> FALSE, series |-> NoSeries,
          cache |-> c, loads |-> h]
    ELSE IF ~files[mod].exists
    THEN [error |-> "ValueError:path does not exist", hit |-> FALSE, series |-> NoSeries,
          cache |-> c, loads |-> h]
    ELSE Only({ IF r.error # "ok"
                THEN [error |-> r.error, hit |-> FALSE, series |-> NoSeries,
                      cache |-> c, loads |-> h]
                ELSE [error |-> "ok", hit |-> FALSE,
                      series |-> SomeSeries(r.dataset),
                      cache |-> [a \in DOMAIN c |->
                                    IF a = cache_attr(mod) THEN SomeSeries(r.dataset)
                                    ELSE NoSeries],
                      loads |-> [h EXCEPT ![mod] = Append(@, r.dataset)]]
                : r \in {read_from_files(files[mod])} })

\* Study.read_image(mod) on a Study with cache c and load history h:
\* [error, hit, series, cache, loads]; hit tells that the cached series was
\* returned.
read_image(c, h, mod) ==
    IF is_cached(c, mod)
    THEN [error |-> "ok", hit |-> TRUE, series |-> c[cache_attr(mod)],
          cache |-> c, loads |-> h]
    ELSE IF ~paths[mod].set
    THEN [error |-> "ValueError:path not set", hit |-> FALSE, series |-> NoSeries,
          cache |-> c, loads |-> h]
    ELSE IF ~files[mod].exists
    THEN [error |-> "ValueError:path does not exist", hit |-> FALSE, series |-> NoSeries,
          cache |-> c, loads |-> h]
    ELSE Only({ IF r.error # "ok"
                THEN [error |-> r.error, hit |-> FALSE, series |-> NoSeries,
                      cache |-> c, loads |-> h]
                ELSE [error |-> "ok", hit |-> FALSE,
                      series |-> SomeSeries(r.dataset),
                      cache |-> [c EXCEPT ![cache_attr(mod)] = SomeSeries(r.dataset)],
                      loads |-> [h EXCEPT ![mod] = Append(@, r.dataset)]]
                : r \in {read_from_files(files[mod])} })

(***************************************************************************)
(* patient_reference_frame_registration.py: register_segmentation          *)
(***************************************************************************)
\* The native-modality test both registrars begin with; one that tests for
\* another modality.
is_native_other(modality) == modality = COR_PDF

is_native(modality) == modality = COR_T1

\* DicomDataset.get_pixel_array().shape: (Z, Y, X).
PixelArrayShape(ds) == <<Len(ds), ds[1].shape[1], ds[1].shape[2]>>

\* The geometry the registrar reads off a series.
Geometry(ds) ==
    LET ds0 == ds[1]
        slice_dir == Cross(ds0.ImageOrientationPatient.row, ds0.ImageOrientationPatient.col)
    IN  [ row_dir |-> ds0.ImageOrientationPatient.row,
          col_dir |-> ds0.ImageOrientationPatient.col,
          slice_dir |-> slice_dir,
          pixel_spacing |-> ds0.PixelSpacing,
          origin |-> ds0.ImagePositionPatient,
          slice_spacing |->
              IF Len(ds) > 1
              THEN Abs(Dot(VSub(ds[2].ImagePositionPatient, ds0.ImagePositionPatient),
                           slice_dir))
              ELSE IF ds0.hasSliceThickness THEN ds0.SliceThickness ELSE 1 ]

\* floor(num / den) for den > 0.
FloorDiv(num, den) == num \div den

\* A rounding that takes a tie upwards: floor(num / den + 1/2).
RoundHalfUp(num, den) == (2 * num + den) \div (2 * den)

\* np.round(num / den) for den > 0: to the nearest whole number, a tie to
\* the even one.
RoundHalfEven(num, den) ==
    LET q == num \div den
        r == num - q * den
    IN  IF 2 * r < den THEN q
        ELSE IF 2 * r > den THEN q + 1
        ELSE IF q % 2 = 0 THEN q ELSE q + 1

\* The rounding of the source coordinate; one that truncates downwards.
RoundIndexFloor(num, den) == FloorDiv(num, den)

RoundIndex(num, den) == RoundHalfEven(num, den)

\* Patient position of target voxel (y, x, z).
PatientPos(tgt, y, x, z) ==
    LET tgt_slice_origin == VAdd(tgt.origin, VScale(z * tgt.slice_spacing, tgt.slice_dir))
    IN  VAdd(VAdd(tgt_slice_origin, VScale(y * tgt.pixel_spacing[1], tgt.row_dir)),
             VScale(x * tgt.pixel_spacing[2], tgt.col_dir))

\* (src_y_idx, src_x_idx, src_z_idx) of target voxel (y, x, z); the source
\* spacings are not zero.
SourceIndex(src, tgt, y, x, z) ==
    LET delta == VSub(PatientPos(tgt, y, x, z), src.origin)
    IN  << RoundIndex(Dot(delta, src.row_dir), src.pixel_spacing[1]),
           RoundIndex(Dot(delta, src.col_dir), src.pixel_spacing[2]),
           RoundIndex(Dot(delta, src.slice_dir), src.slice_spacing) >>

\* The bounds test before the copy; one without the lower bounds.
InBoundsNoLower(idx, shape) ==
    idx[1] < shape[1] /\ idx[2] < shape[2] /\ idx[3] < shape[3]

InBounds(idx, shape) ==
    /\ 0 <= idx[1] /\ idx[1] < shape[1]
    /\ 0 <= idx[2] /\ idx[2] < shape[2]
    /\ 0 <= idx[3] /\ idx[3] < shape[3]

\* numpy indexing seg_data[i, j, k]: an index in [-dim, 0) counts from the
\* end, an index outside [-dim, dim) raises IndexError.
NumpyAxis(i, dim) == IF i < 0 THEN i + dim ELSE i

NumpyRaises(idx, shape) ==
    \E a \in 1..3 : idx[a] >= shape[a] \/ idx[a] < -shape[a]

NumpyRead(vol, idx) ==
    vol.data[<< NumpyAxis(idx[1], vol.shape[1]),
                NumpyAxis(idx[2], vol.shape[2]),
                NumpyAxis(idx[3], vol.shape[3]) >>]

\* int(np.round(num / 0.0)) at the first target voxel: the quotient is NaN
\* for num = 0 and infinite otherwise, and int() refuses both.
IntOfNonFinite(num) ==
    IF num = 0 THEN "ValueError:NaN" ELSE "OverflowError"

\* The exception of the first of the three conversions whose source spacing
\* is zero.
ZeroSpacingError(src, tgt) ==
    LET delta == VSub(PatientPos(tgt, 0, 0, 0), src.origin)
    IN  IF src.pixel_spacing[1] = 0 THEN IntOfNonFinite(Dot(delta, src.row_dir))
        ELSE IF src.pixel_spacing[2] = 0 THEN IntOfNonFinite(Dot(delta, src.col_dir))
        ELSE IntOfNonFinite(Dot(delta, src.slice_dir))

\* The resampling loop of register_segmentation over the target grid, for
\* the geometries of the source and the target series: [error, pixels].
ResampleLoop(src, tgt, target_shape, seg_data) ==
    IF src.pixel_spacing[1] = 0 \/ src.pixel_spacing[2] = 0 \/ src.slice_spacing = 0
    THEN [error |-> ZeroSpacingError(src, tgt), pixels |-> NoPixels]
    ELSE Only({
        IF \E v \in Grid(target_shape) :
              InBounds(idx[v], seg_data.shape) /\ NumpyRaises(idx[v], seg_data.shape)
        THEN [error |-> "IndexError", pixels |-> NoPixels]
        ELSE [error |-> "ok",
              pixels |-> [ dtype |-> seg_data.dtype,
                           shape |-> target_shape,
                           data |-> [v \in Grid(target_shape) |->
                                       IF InBounds(idx[v], seg_data.shape)
                                       THEN NumpyRead(seg_data, idx[v])
                                       ELSE 0] ]]
        : idx \in { [v \in Grid(target_shape) |->
                        SourceIndex(src, tgt, v[1], v[2], v[3])] } })

Resample(src_ds, tgt_ds, seg_data) ==
    Only({ ResampleLoop(src, tgt, <<shape[2], shape[3], shape[1]>>, seg_data)
           : src \in {Geometry(src_ds)}, tgt \in {Geometry(tgt_ds)},
             shape \in {PixelArrayShape(tgt_ds)} })

\* register_segmentation(study, modality) once the source series is read.
register_segmentation_target(src, modality) ==
    Only({ IF tgt.error # "ok"
           THEN [error |-> tgt.error, pixels |-> NoPixels,
                 cache |-> tgt.cache, loads |-> tgt.loads]
           ELSE Only({ [error |-> r.error, pixels |-> r.pixels,
                        cache |-> tgt.cache, loads |-> tgt.loads]
                       : r \in {Resample(src.series.dataset, tgt.series.dataset,
                                         segmentation.pixels)} })
           : tgt \in {read_image(src.cache, src.loads, modality)} })

\* register_segmentation(study, modality): [error, pixels, cache, loads].
register_segmentation(modality) ==
    IF is_native(modality)
    THEN [error |-> "ok", pixels |-> segmentation.pixels, cache |-> cache, loads |-> loads]
    ELSE Only({ IF src.error # "ok"
                THEN [error |-> src.error, pixels |-> NoPixels,
                      cache |-> src.cache, loads |-> src.loads]
                ELSE register_segmentation_target(src, modality)
                : src \in {read_image(cache, loads, COR_T1)} })

(***************************************************************************)
(* patient_reference_landmark_registration.py                              *)
(***************************************************************************)
\* int(num / den) for den > 0: towards zero.
\* A conversion to int that takes the floor.
TruncDivFloor(num, den) == num \div den

\* np.argmin that returns the last index of a least value.
ArgMinLast(values) ==
    (CHOOSE k \in 1..Len(values) :
        /\ \A n \in 1..Len(values) : values[k] <= values[n]
        /\ \A n \in (k + 1)..Len(values) : values[n] > values[k]) - 1

\* int(x) of a float: towards zero.
TruncDiv(num, den) == IF num >= 0 THEN num \div den ELSE -((-num) \div den)

\* np.argsort(slice_positions): the indices in ascending order of position
\* (insertion order among equal positions, as for arrays this short).
ArgSort(positions) ==
    LET sorted_pairs == SortedByKey([i \in 1..Len(positions) |-> <<positions[i], i>>])
    IN  [i \in 1..Len(positions) |-> sorted_pairs[i][2]]

\* np.argmin: the first index of a least value, counted from 0.
ArgMin(values) ==
    (CHOOSE k \in 1..Len(values) :
        /\ \A n \in 1..Len(values) : values[k] <= values[n]
        /\ \A n \in 1..(k - 1) : values[n] > values[k]) - 1

\* The solution (i, j) of lstsq([a b], delta) for independent columns a, b,
\* by the normal equations: [i_num, j_num, den], den > 0.
LstSq2(a, b, delta) ==
    [ i_num |-> Dot(a, delta) * Dot(b, b) - Dot(a, b) * Dot(b, delta),
      j_num |-> Dot(a, a) * Dot(b, delta) - Dot(a, b) * Dot(a, delta),
      den   |-> Dot(a, a) * Dot(b, b) - Dot(a, b) * Dot(a, b) ]

\* datasets after the local sort of patient_to_image_coordinate.
SortedDatasets(ds) ==
    Only({ [n \in 1..Len(ds) |-> ds[sorted_indices[n]]]
           : sorted_indices \in
               { ArgSort([n \in 1..Len(ds) |->
                    Dot(SliceNormal(ds[1]),
                        VSub(ds[n].ImagePositionPatient, ds[1].ImagePositionPatient))]) } })

\* k: the first of the sorted slices whose position along the normal is
\* nearest to that of the patient coordinate.
NearestSlice(patient_coordinate, datasets, ds0) ==
    ArgMin([n \in 1..Len(datasets) |->
              Abs(Dot(SliceNormal(ds0),
                      VSub(datasets[n].ImagePositionPatient, ds0.ImagePositionPatient))
                  - Dot(SliceNormal(ds0),
                        VSub(patient_coordinate, ds0.ImagePositionPatient)))])

\* The locals of patient_to_image_coordinate at its return: i along the
\* row cosines, j along the column cosines, k the selected slice.
ImageCoordinate(patient_coordinate, ds) ==
    Only({ Only({ Only({ [i_num |-> ij.i_num, j_num |-> ij.j_num, den |-> ij.den, k |-> k]
                         : ij \in { LstSq2(
                               VScale(ds[1].PixelSpacing[2], ds[1].ImageOrientationPatient.row),
                               VScale(ds[1].PixelSpacing[1], ds[1].ImageOrientationPatient.col),
                               VSub(patient_coordinate,
                                    datasets[k + 1].ImagePositionPatient)) } })
                  : k \in {NearestSlice(patient_coordinate, datasets, ds[1])} })
           : datasets \in {SortedDatasets(ds)} })

\* The triple a caller would get in the order (i, j, k).
ReturnedTripleIJK(c) ==
    << TruncDiv(c.i_num, c.den), TruncDiv(c.j_num, c.den), c.k >>

\* The triple patient_to_image_coordinate returns.
ReturnedTriple(c) ==
    << TruncDiv(c.j_num, c.den), TruncDiv(c.i_num, c.den), c.k >>

patient_to_image_coordinate(patient_coordinate, ds) ==
    Only({ ReturnedTriple(c) : c \in {ImageCoordinate(patient_coordinate, ds)} })

\* The out-of-bounds messages patient_to_image_coordinate prints before it
\* returns, as the set of the indices named: i against series.shape[1], j
\* against series.shape[2], k against series.shape[0], each flagged when
\* below 0 or above the dimension.
BoundsWarnings(c, ds) ==
    Only({ (IF c.i_num < 0 \/ c.i_num > shape[2] * c.den THEN {"i"} ELSE {})
           \cup (IF c.j_num < 0 \/ c.j_num > shape[3] * c.den THEN {"j"} ELSE {})
           \cup (IF c.k < 0 \/ c.k > shape[1] THEN {"k"} ELSE {})
           : shape \in {PixelArrayShape(ds)} })

printed_warnings(patient_coordinate, ds) ==
    Only({ BoundsWarnings(c, ds) : c \in {ImageCoordinate(patient_coordinate, ds)} })

\* Matrices are sequences of rows.  Real matrices are an integer matrix
\* over one positive denominator; the linear algebra is exact.
RECURSIVE SumTo(_, _)
SumTo(f, n) == IF n = 0 THEN 0 ELSE SumTo(f, n - 1) + f[n]

MatMul(A, B) ==
    [i \in 1..Len(A) |->
        [j \in 1..Len(B[1]) |-> SumTo([k \in 1..Len(B) |-> A[i][k] * B[k][j]], Len(B))]]

Transpose(A) == [j \in 1..Len(A[1]) |-> [i \in 1..Len(A) |-> A[i][j]]]

MatAddScaled(A, c) ==
    [i \in 1..Len(A) |-> [j \in 1..Len(A) |-> A[i][j] + (IF i = j THEN c ELSE 0)]]

Trace(A) == SumTo([i \in 1..Len(A) |-> A[i][i]], Len(A))

MatScale(c, A) == [i \in 1..Len(A) |-> [j \in 1..Len(A[1]) |-> c * A[i][j]]]

IdentityMatrix(n) == [i \in 1..n |-> [j \in 1..n |-> IF i = j THEN 1 ELSE 0]]

\* The coefficients c[1..n] of the characteristic polynomial of the square
\* matrix G and the matrices m[k] = G^(k-1) + c[1] G^(k-2) + ... +
\* c[k-1] I, by the recurrence m[k+1] = G m[k] + c[k] I,
\* c[k] = -trace(G m[k]) / k.
RECURSIVE CharPoly(_, _)
CharPoly(G, k) ==
    IF k = 1
    THEN [c |-> <<-Trace(G)>>, m |-> <<IdentityMatrix(Len(G))>>]
    ELSE Only({ Only({ [c |-> Append(before.c, -(Trace(MatMul(G, mk)) \div k)),
                        m |-> Append(before.m, mk)]
                       : mk \in { MatAddScaled(MatMul(G, before.m[k - 1]),
                                               before.c[k - 1]) } })
                : before \in {CharPoly(G, k - 1)} })

\* np.linalg.lstsq(A, B, rcond=None)[0] for a matrix A that is not zero:
\* the least-squares solution of least norm, pinv(A) B, as
\* [num, den, rank]; pinv(A) = -(1 / c[r]) m[r] A^T for the
\* characteristic polynomial of A^T A and r the rank of A.
LstSq(A, B) ==
    Only({ Only({ IF cp.c[r] < 0
                  THEN [num |-> MatMul(cp.m[r], MatMul(Transpose(A), B)),
                        den |-> -cp.c[r], rank |-> r]
                  ELSE [num |-> MatScale(-1, MatMul(cp.m[r], MatMul(Transpose(A), B))),
                        den |-> cp.c[r], rank |-> r]
                  : r \in { CHOOSE k \in 1..Len(cp.c) :
                               /\ cp.c[k] # 0
                               /\ \A n \in (k + 1)..Len(cp.c) : cp.c[n] = 0 } })
           : cp \in { CharPoly(MatMul(Transpose(A), A), Len(A[1])) } })

\* The determinant and the adjugate of a 3 x 3 matrix.
Det3(M) ==
    M[1][1] * (M[2][2] * M[3][3] - M[2][3] * M[3][2])
    - M[1][2] * (M[2][1] * M[3][3] - M[2][3] * M[3][1])
    + M[1][3] * (M[2][1] * M[3][2] - M[2][2] * M[3][1])

Adj3(M) ==
    << << M[2][2] * M[3][3] - M[2][3] * M[3][2],
          M[1][3] * M[3][2] - M[1][2] * M[3][3],
          M[1][2] * M[2][3] - M[1][3] * M[2][2] >>,
       << M[2][3] * M[3][1] - M[2][1] * M[3][3],
          M[1][1] * M[3][3] - M[1][3] * M[3][1],
          M[1][3] * M[2][1] - M[1][1] * M[2][3] >>,
       << M[2][1] * M[3][2] - M[2][2] * M[3][1],
          M[1][2] * M[3][1] - M[1][1] * M[3][2],
          M[1][1] * M[2][2] - M[1][2] * M[2][1] >> >>

MatVec(M, v) == [i \in 1..Len(M) |-> SumTo([k \in 1..Len(v) |-> M[i][k] * v[k]], Len(v))]

\* The filter test on one landmark pair: norm(src_pt - tgt_pt) <
\* max_distance_mm, on the squares; one that also keeps a pair at the
\* threshold.
is_reliable_inclusive(src_pt, tgt_pt, max_distance_mm) ==
    /\ max_distance_mm >= 0
    /\ Dot(VSub(src_pt, tgt_pt), VSub(src_pt, tgt_pt)) <= max_distance_mm * max_distance_mm

is_reliable(src_pt, tgt_pt, max_distance_mm) ==
    /\ max_distance_mm > 0
    /\ Dot(VSub(src_pt, tgt_pt), VSub(src_pt, tgt_pt)) < max_distance_mm * max_distance_mm

\* A filter loop that collects the target points in reverse.
RECURSIVE filter_landmarks_reversing(_, _, _, _)
filter_landmarks_reversing(names, src_ref, target_ref, max_distance_mm) ==
    IF names = <<>> THEN [src |-> <<>>, tgt |-> <<>>, used |-> <<>>]
    ELSE Only({ IF is_reliable(src_ref[Head(names)], target_ref[Head(names)],
                               max_distance_mm)
                THEN [src |-> <<src_ref[Head(names)]>> \o rest.src,
                      tgt |-> Append(rest.tgt, target_ref[Head(names)]),
                      used |-> <<Head(names)>> \o rest.used]
                ELSE rest
                : rest \in { filter_landmarks_reversing(Tail(names), src_ref, target_ref,
                                                        max_distance_mm) } })

\* The filter loop (lines 150-167): filtered_src_patient,
\* filtered_tgt_patient and used_landmarks, each appended to for every
\* name of landmark_names, in turn, whose pair is reliable.
RECURSIVE filter_landmarks(_, _, _, _)
filter_landmarks(names, src_ref, target_ref, max_distance_mm) ==
    IF names = <<>> THEN [src |-> <<>>, tgt |-> <<>>, used |-> <<>>]
    ELSE Only({ IF is_reliable(src_ref[Head(names)], target_ref[Head(names)],
                               max_distance_mm)
                THEN [src |-> <<src_ref[Head(names)]>> \o rest.src,
                      tgt |-> <<target_ref[Head(names)]>> \o rest.tgt,
                      used |-> <<Head(names)>> \o rest.used]
                ELSE rest
                : rest \in { filter_landmarks(Tail(names), src_ref, target_ref,
                                              max_distance_mm) } })

\* No landmark registrar call in progress.
LmIdle ==
    [ pc |-> "idle", modality |-> "none", max_distance_mm |-> 0,
      src_dcm |-> NoSeries, target_dcm |-> NoSeries,
      used_landmarks |-> <<>>,
      filtered_src_patient |-> <<>>, filtered_tgt_patient |-> <<>>,
      src_points_whd |-> <<>>, tgt_points_whd |-> <<>>,
      src_warnings |-> <<>>, tgt_warnings |-> <<>>,
      M |-> <<>>, offset |-> <<>>, den |-> 1, rank |-> 0,
      landmark_errors |-> <<>> ]

\* The filter loop of the landmark registrar, once both series are read.
register_filter(src, tgt, modality, max_distance_mm) ==
    IF modality \notin ReferencePointFields
    THEN [error |-> "AttributeError", done |-> TRUE, pixels |-> NoPixels,
          cache |-> tgt.cache, loads |-> tgt.loads, lm |-> LmIdle]
    ELSE Only({ [error |-> "ok", done |-> FALSE, pixels |-> NoPixels,
                 cache |-> tgt.cache, loads |-> tgt.loads,
                 lm |-> [ pc |-> "convert",
                          modality |-> modality,
                          max_distance_mm |-> max_distance_mm,
                          src_dcm |-> src.series,
                          target_dcm |-> tgt.series,
                          used_landmarks |-> kept.used,
                          filtered_src_patient |-> kept.src,
                          filtered_tgt_patient |-> kept.tgt,
                          src_points_whd |-> <<>>,
                          tgt_points_whd |-> <<>>,
                          src_warnings |-> <<>>,
                          tgt_warnings |-> <<>>,
                          M |-> <<>>, offset |-> <<>>, den |-> 1, rank |-> 0,
                          landmark_errors |-> <<>> ]]
                : kept \in { filter_landmarks(landmark_names, reference_points[COR_T1],
                                              reference_points[modality],
                                              max_distance_mm) } })

\* The landmark registrar once the source series is read.
register_begin_target(src, modality, max_distance_mm) ==
    Only({ IF tgt.error # "ok"
           THEN [error |-> tgt.error, done |-> TRUE, pixels |-> NoPixels,
                 cache |-> tgt.cache, loads |-> tgt.loads, lm |-> LmIdle]
           ELSE register_filter(src, tgt, modality, max_distance_mm)
           : tgt \in {read_image(src.cache, src.loads, modality)} })

\* register_segmentation_with_filtered_landmarks(study, modality,
\* max_distance_mm) up to the end of its filter loop:
\* [error, done, pixels, cache, loads, lm].
register_begin(modality, max_distance_mm) ==
    IF is_native(modality)
    THEN [error |-> "ok", done |-> TRUE, pixels |-> segmentation.pixels,
          cache |-> cache, loads |-> loads, lm |-> LmIdle]
    ELSE Only({ IF src.error # "ok"
                THEN [error |-> src.error, done |-> TRUE, pixels |-> NoPixels,
                      cache |-> src.cache, loads |-> src.loads, lm |-> LmIdle]
                ELSE register_begin_target(src, modality, max_distance_mm)
                : src \in {read_image(cache, loads, COR_T1)} })

\* src_homogeneous: the rows (point, 1).
Homogeneous(points) == [n \in 1..Len(points) |-> Append(points[n], 1)]

\* The affine estimate of the landmark registrar from the converted
\* points (lines 196-203): [error, M, offset, den, rank].  M and offset
\* are numerators over den.  np.hstack refuses the empty array of no
\* points.
estimate_affine(src_points, tgt_points) ==
    IF Len(src_points) = 0
    THEN [error |-> "ValueError:hstack", M |-> <<>>, offset |-> <<>>, den |-> 1,
          rank |-> 0]
    ELSE Only({ [ error |-> "ok",
                  M |-> Transpose(SubSeq(X.num, 1, 3)),
                  offset |-> X.num[4],
                  den |-> X.den,
                  rank |-> X.rank ]
                : X \in {LstSq(Homogeneous(src_points), tgt_points)} })

\* Diagnostics that refuse a fit that misses a landmark.
verify_quality_blocking(src_points, tgt_points, M, offset, den) ==
    Only({ [error |-> IF \E n \in 1..Len(src_points) :
                            transformed[n] # VScale(den, tgt_points[n])
                      THEN "ValueError:residual" ELSE "ok",
            landmark_errors |->
               [n \in 1..Len(src_points) |->
                   Dot(VSub(transformed[n], VScale(den, tgt_points[n])),
                       VSub(transformed[n], VScale(den, tgt_points[n])))]]
           : transformed \in
               { [n \in 1..Len(src_points) |-> VAdd(MatVec(M, src_points[n]), offset)] } })

\* The diagnostics of the landmark registrar (lines 210-218):
\* [error, landmark_errors]; landmark_errors[n] is the numerator of the
\* squared error of landmark n over den * den.  The errors, their mean and
\* their maximum are printed; nothing is raised.
verify_quality(src_points, tgt_points, M, offset, den) ==
    Only({ [error |-> "ok",
            landmark_errors |->
               [n \in 1..Len(src_points) |->
                   Dot(VSub(transformed[n], VScale(den, tgt_points[n])),
                       VSub(transformed[n], VScale(den, tgt_points[n])))]]
           : transformed \in
               { [n \in 1..Len(src_points) |-> VAdd(MatVec(M, src_points[n]), offset)] } })

\* A coordinate that applies the forward transform M o + offset.
InputCoordinateForward(M, offset, den, o) ==
    [num |-> VAdd(MatVec(M, o), offset), den |-> den]

\* The input coordinate of output voxel o under
\* affine_transform(matrix = M_inv, offset = offset_inv), for M not
\* singular: M_inv o + offset_inv = adj(M) (den o - offset) / det(M), as
\* [num, den] with den > 0.
InputCoordinate(M, offset, den, o) ==
    Only({ IF det > 0
           THEN [num |-> MatVec(Adj3(M), VSub(VScale(den, o), offset)), den |-> det]
           ELSE [num |-> MatVec(MatScale(-1, Adj3(M)), VSub(VScale(den, o), offset)),
                 den |-> -det]
           : det \in {Det3(M)} })

\* scipy.ndimage.affine_transform(order = 0, mode = "constant", cval = 0)
\* at one output voxel: 0 when a coordinate lies below 0 or above
\* dimension - 1, else the input at the coordinates rounded half up.
SampleNearest(seg, c) ==
    IF \E a \in 1..3 : c.num[a] < 0 \/ c.num[a] > (seg.shape[a] - 1) * c.den
    THEN 0
    ELSE seg.data[<< FloorDiv(2 * c.num[1] + c.den, 2 * c.den),
                     FloorDiv(2 * c.num[2] + c.den, 2 * c.den),
                     FloorDiv(2 * c.num[3] + c.den, 2 * c.den) >>]

\* M_inv = np.linalg.inv(M): raises LinAlgError for a singular M.
inv_raises(M) == Det3(M) = 0

\* An application that resamples to background instead of raising when M
\* is singular.
apply_affine_unchecked(seg, M, offset, den, target_shape_whd) ==
    [error |-> "ok",
     pixels |-> [ dtype |-> seg.dtype,
                  shape |-> target_shape_whd,
                  data |-> [o \in Grid(target_shape_whd) |->
                              IF Det3(M) = 0 THEN 0
                              ELSE SampleNearest(seg, InputCoordinate(M, offset, den, o))] ]]

\* Lines 220-245 of the landmark registrar: [error, pixels].
apply_affine(seg, M, offset, den, target_shape_whd) ==
    IF inv_raises(M)
    THEN [error |-> "LinAlgError", pixels |-> NoPixels]
    ELSE [error |-> "ok",
          pixels |-> [ dtype |-> seg.dtype,
                       shape |-> target_shape_whd,
                       data |-> [o \in Grid(target_shape_whd) |->
                                   SampleNearest(seg,
                                       InputCoordinate(M, offset, den, o))] ]]

(***************************************************************************)
(* The Study: its inputs, and one action per call.                         *)
(***************************************************************************)
MaxLoads == 2       \* loads from disk followed per modality
MaxShift == 1       \* target origins are shifted by -1..MaxShift along x and z
MaxGap == 2         \* distance between neighbouring slices, 0..MaxGap

NoPath == [set |-> FALSE]
SomePath == [set |-> TRUE]

NoDir == [exists |-> FALSE, slices |-> <<>>]

\* A directory of n parallel slices, the first at origin, each gap further
\* along the normal.
Dir(n, origin, iop, spacing, shape, gap) ==
    [ exists |-> TRUE,
      slices |-> [i \in 1..n |->
                    SliceAt(i, VAdd(origin, VScale((i - 1) * gap, Cross(iop.row, iop.col))),
                            iop, spacing, shape)] ]

NoCall == [op |-> "none", modality |-> "none", error |-> "ok", hit |-> FALSE]

\* A volume whose voxels all differ and are not 0.
LabelVolume(dtype, shape) ==
    [ dtype |-> dtype,
      shape |-> shape,
      data |-> [v \in Grid(shape) |->
                  1 + v[1] + shape[1] * v[2] + shape[1] * shape[2] * v[3]] ]

\* A volume of one label.
OnesVolume(dtype, shape) ==
    [dtype |-> dtype, shape |-> shape, data |-> [v \in Grid(shape) |-> 1]]

SegmentationOf(pixels) == [pixels |-> pixels, orientation |-> <<1, 0, 0, 0, 1, 0>>]

\* The landmarks of the source modality, in patient space.
SourceLandmarks ==
    [ lat_acr_border  |-> <<2, 1, 0>>,
      lat_clav_border |-> <<0, 3, 1>>,
      apical_humerus  |-> <<3, 0, 2>>,
      lat_glen_sup    |-> <<1, 1, 1>>,
      lat_glen_inf    |-> <<-1, 2, 0>>,
      proc_cora_tip   |-> <<5, -3, 3>> ]

\* Displacements of a target landmark from its source landmark: of length
\* 1, of length 5, and of a length above 5 and below 6.
LandmarkOffsets == { <<0, 0, 1>>, <<3, 4, 0>>, <<4, 4, 0>> }

DefaultMaxDistance == 5

MaxDistances == {DefaultMaxDistance, DefaultMaxDistance + 1}

ShiftedLandmarks(offsets) ==
    [name \in DOMAIN SourceLandmarks |-> VAdd(SourceLandmarks[name], offsets[name])]

FixedReferencePoints ==
    [f \in ReferencePointFields |->
        IF f = COR_T1 THEN SourceLandmarks
        ELSE ShiftedLandmarks([name \in DOMAIN SourceLandmarks |->
                                  IF name = "proc_cora_tip" THEN <<4, 4, 0>> ELSE <<0, 0, 0>>])]

\* A Study as load_from_folder returns it: nothing cached, nothing called.
FreshStudy ==
    /\ cache = [a \in CacheAttrs |-> NoSeries]
    /\ loads = [m \in ModalityType |-> <<>>]
    /\ call = NoCall
    /\ result_series = NoSeries
    /\ result_pixels = NoPixels
    /\ lm = LmIdle

\* No landmark registrar call is in progress: none was made, or the last
\* one returned or raised (lm keeps its locals).
QuietPcs == {"idle", "returned", "raised"}

\* series = study.read_image(mod)
ReadImage(mod) ==
    /\ lm.pc \in QuietPcs
    /\ \A m \in ModalityType : Len(loads[m]) < MaxLoads
    /\ \E r \in {read_image(cache, loads, mod)} :
           /\ cache' = r.cache
           /\ loads' = r.loads
           /\ call' = [op |-> "read_image", modality |-> mod, error |-> r.error,
                       hit |-> r.hit]
           /\ result_series' = r.series
    /\ result_pixels' = NoPixels
    /\ UNCHANGED <<paths, files, segmentation, reference_points, lm, series_vars, ext_vars>>

\* pixels = register_segmentation(study, modality)
RegisterSegmentation(modality) ==
    /\ lm.pc \in QuietPcs
    /\ \A m \in ModalityType : Len(loads[m]) < MaxLoads
    /\ \E r \in {register_segmentation(modality)} :
           /\ cache' = r.cache
           /\ loads' = r.loads
           /\ call' = [op |-> "register_segmentation", modality |-> modality,
                       error |-> r.error, hit |-> FALSE]
           /\ result_pixels' = r.pixels
    /\ result_series' = NoSeries
    /\ UNCHANGED <<paths, files, segmentation, reference_points, lm, series_vars, ext_vars>>

\* register_segmentation_with_filtered_landmarks(study, modality,
\* max_distance_mm) from its call to the end of the filter loop.
RegisterLandmarksBegin(modality, max_distance_mm) ==
    /\ lm.pc \in QuietPcs
    /\ \A m \in ModalityType : Len(loads[m]) < MaxLoads
    /\ \E r \in {register_begin(modality, max_distance_mm)} :
           /\ cache' = r.cache
           /\ loads' = r.loads
           /\ call' = [op |-> "register_segmentation_with_filtered_landmarks",
                       modality |-> modality,
                       error |-> IF r.done THEN r.error ELSE "running",
                       hit |-> FALSE]
           /\ result_pixels' = r.pixels
           /\ lm' = r.lm
    /\ result_series' = NoSeries
    /\ UNCHANGED <<paths, files, segmentation, reference_points, series_vars, ext_vars>>

\* The conversion of the kept landmarks to image coordinates.
RegisterLandmarksConvert ==
    /\ lm.pc = "convert"
    /\ lm' = [lm EXCEPT
                !.pc = "estimate",
                !.src_points_whd =
                    [n \in 1..Len(lm.filtered_src_patient) |->
                        patient_to_image_coordinate(lm.filtered_src_patient[n],
                                                    lm.src_dcm.dataset)],
                !.tgt_points_whd =
                    [n \in 1..Len(lm.filtered_tgt_patient) |->
                        patient_to_image_coordinate(lm.filtered_tgt_patient[n],
                                                    lm.target_dcm.dataset)],
                !.src_warnings =
                    [n \in 1..Len(lm.filtered_src_patient) |->
                        printed_warnings(lm.filtered_src_patient[n], lm.src_dcm.dataset)],
                !.tgt_warnings =
                    [n \in 1..Len(lm.filtered_tgt_patient) |->
                        printed_warnings(lm.filtered_tgt_patient[n],
                                         lm.target_dcm.dataset)]]
    /\ UNCHANGED <<paths, files, cache, loads, segmentation, reference_points,
                   call, result_series, result_pixels, series_vars, ext_vars>>

\* The affine estimate (lines 196-203).
RegisterLandmarksEstimate ==
    /\ lm.pc = "estimate"
    /\ \E e \in {estimate_affine(lm.src_points_whd, lm.tgt_points_whd)} :
           /\ lm' = [lm EXCEPT
                       !.pc = IF e.error = "ok" THEN "diagnose" ELSE "raised",
                       !.M = e.M, !.offset = e.offset, !.den = e.den,
                       !.rank = e.rank]
           /\ call' = [call EXCEPT !.error = IF e.error = "ok" THEN "running" ELSE e.error]
    /\ UNCHANGED <<paths, files, cache, loads, segmentation, reference_points,
                   result_series, result_pixels, series_vars, ext_vars>>

\* The diagnostics of the estimate (lines 210-218).
RegisterLandmarksDiagnose ==
    /\ lm.pc = "diagnose"
    /\ \E d \in {verify_quality(lm.src_points_whd, lm.tgt_points_whd,
                                  lm.M, lm.offset, lm.den)} :
           /\ lm' = [lm EXCEPT
                       !.pc = IF d.error = "ok" THEN "apply" ELSE "raised",
                       !.landmark_errors = d.landmark_errors]
           /\ call' = [call EXCEPT !.error = IF d.error = "ok" THEN "running" ELSE d.error]
    /\ UNCHANGED <<paths, files, cache, loads, segmentation, reference_points,
                   result_series, result_pixels, series_vars, ext_vars>>

\* The inversion, the resampling and the return (lines 220-245).
RegisterLandmarksApply ==
    /\ lm.pc = "apply"
    /\ \E r \in {apply_affine(segmentation.pixels, lm.M, lm.offset, lm.den,
                                << PixelArrayShape(lm.target_dcm.dataset)[2],
                                   PixelArrayShape(lm.target_dcm.dataset)[3],
                                   PixelArrayShape(lm.target_dcm.dataset)[1] >>)} :
           /\ lm' = [lm EXCEPT !.pc = IF r.error = "ok" THEN "returned" ELSE "raised"]
           /\ call' = [call EXCEPT !.error = r.error]
           /\ result_pixels' = r.pixels
    /\ UNCHANGED <<paths, files, cache, loads, segmentation, reference_points,
                   result_series, series_vars, ext_vars>>

NextStudy ==
    \/ \E mod \in ModalityType : ReadImage(mod)
    \/ \E mod \in ModalityType : RegisterSegmentation(mod)
    \/ \E mod \in ModalityType, d \in MaxDistances : RegisterLandmarksBegin(mod, d)
    \/ RegisterLandmarksConvert
    \/ RegisterLandmarksEstimate
    \/ RegisterLandmarksDiagnose
    \/ RegisterLandmarksApply

\* Directories of a Study: two sound slices out of order, and two slices
\* of different series.
UnsortedDir ==
    [ exists |-> TRUE,
      slices |-> << Slice(1, 3, IopAxial), Slice(2, 0, IopAxial) >> ]

UnsoundDir ==
    [ exists |-> TRUE,
      slices |-> << Slice(1, 0, IopAxial),
                    Deviate(Slice(2, 1, IopAxial), "SeriesInstanceUID") >> ]

\* Studies whose paths are unset or set, and whose directories are
\* missing, sound or unsound.
InitStudy ==
    /\ paths \in [ModalityType -> {NoPath, SomePath}]
    /\ files \in [ModalityType -> {NoDir, UnsortedDir, UnsoundDir}]
    /\ \A m \in ModalityType : ~paths[m].set => files[m] = NoDir
    /\ files[SAG_T2] # UnsoundDir
    /\ paths[COR_PDF].set => files[COR_PDF] # NoDir
    /\ segmentation \in { SegmentationOf(LabelVolume("uint8", <<2, 2, 2>>)),
                          SegmentationOf(OnesVolume("int16", <<1, 2, 3>>)) }
    /\ reference_points = FixedReferencePoints
    /\ FreshStudy
    /\ IdleSeries
    /\ IdleExt

SpecStudy == InitStudy /\ [][NextStudy]_vars

\* Source and target series of the dense registrar: one or two slices,
\* two orientations, several spacings, the target shifted along one axis;
\* label volumes with dimensions of either parity.
SourceDirs ==
    { Dir(1, <<0, 0, 0>>, iop, sp, <<2, 2>>, 0)
        : iop \in {IopAxial, IopCoronal}, sp \in {<<1, 1>>, <<2, 2>>} }
    \cup
    { Dir(2, <<0, 0, 0>>, iop, sp, <<2, 2>>, gap)
        : iop \in {IopAxial, IopCoronal}, sp \in {<<1, 1>>, <<2, 2>>}, gap \in 0..MaxGap }

TargetShifts ==
    { <<d, 0, 0>> : d \in (-1)..MaxShift } \cup { <<0, 0, d>> : d \in (-1)..MaxShift }

TargetDirs ==
    { Dir(n, shift, iop, grid[1], grid[2], 1)
        : n \in 1..2, shift \in TargetShifts, iop \in {IopAxial, IopCoronal},
          grid \in { << <<1, 1>>, <<2, 2>> >>, << <<1, 2>>, <<1, 3>> >>,
                     << <<2, 2>>, <<3, 1>> >> } }

InitDense ==
    /\ paths = [m \in ModalityType |-> IF m \in {COR_T1, TRA_PDF} THEN SomePath ELSE NoPath]
    /\ \E s \in SourceDirs, t \in TargetDirs :
          files = [m \in ModalityType |->
                      IF m = COR_T1 THEN s ELSE IF m = TRA_PDF THEN t ELSE NoDir]
    /\ segmentation \in { SegmentationOf(LabelVolume("uint8", <<2, 2, 2>>)),
                          SegmentationOf(LabelVolume("uint8", <<3, 2, 1>>)) }
    /\ reference_points = FixedReferencePoints
    /\ FreshStudy
    /\ IdleSeries
    /\ IdleExt

\* The calls of the dense registrar on such a Study.
NextDense ==
    \/ \E mod \in ModalityType : ReadImage(mod)
    \/ \E mod \in ModalityType : RegisterSegmentation(mod)

SpecDense == InitDense /\ [][NextDense]_vars

\* Studies whose target landmarks lie at, below and above the filter
\* threshold; the source series is axial, the target series coronal.
LandmarkSourceDir == Dir(2, <<0, 0, 0>>, IopAxial, <<1, 2>>, <<2, 2>>, 2)

LandmarkTargetDir == Dir(3, <<-1, 0, 2>>, IopCoronal, <<2, 1>>, <<2, 3>>, 1)

InitLandmark ==
    /\ paths = [m \in ModalityType |-> IF m \in {COR_T1, TRA_PDF} THEN SomePath ELSE NoPath]
    /\ files = [m \in ModalityType |->
                  IF m = COR_T1 THEN LandmarkSourceDir
                  ELSE IF m = TRA_PDF THEN LandmarkTargetDir ELSE NoDir]
    /\ segmentation = SegmentationOf(LabelVolume("uint8", <<2, 2, 2>>))
    /\ \E offsets \in [DOMAIN SourceLandmarks -> LandmarkOffsets] :
          reference_points =
              [f \in ReferencePointFields |->
                  IF f = TRA_PDF THEN ShiftedLandmarks(offsets)
                  ELSE FixedReferencePoints[f]]
    /\ FreshStudy
    /\ IdleSeries
    /\ IdleExt

\* The calls of the landmark registrar on such a Study.
NextLandmark ==
    \/ \E mod \in ModalityType, d \in MaxDistances : RegisterLandmarksBegin(mod, d)
    \/ RegisterLandmarksConvert
    \/ RegisterLandmarksEstimate
    \/ RegisterLandmarksDiagnose
    \/ RegisterLandmarksApply

SpecLandmark == InitLandmark /\ [][NextLandmark]_vars

\* Studies whose target series has the geometry of the source series but
\* another origin, and whose target landmarks are the source landmarks,
\* lie one row spacing beside them, or lie too far away to be kept: the
\* image points of the kept pairs are then translates of each other, or
\* are not when the displacements differ or an index is truncated or a
\* point falls between two slices.
AffineTargetOrigins == { <<0, 0, 0>>, <<0, -1, 0>>, <<-2, 0, 0>>, <<0, 0, -2>> }

AffineTargetDirs ==
    { Dir(2, origin, IopAxial, <<1, 2>>, shape, 2)
        : origin \in AffineTargetOrigins, shape \in { <<2, 3>> } }

AffineOffsets == { <<0, 0, 0>>, <<0, 1, 0>>, <<6, 0, 0>> }

InitAffine ==
    /\ paths = [m \in ModalityType |-> IF m \in {COR_T1, TRA_PDF} THEN SomePath ELSE NoPath]
    /\ \E t \in AffineTargetDirs :
          files = [m \in ModalityType |->
                      IF m = COR_T1 THEN LandmarkSourceDir
                      ELSE IF m = TRA_PDF THEN t ELSE NoDir]
    /\ segmentation = SegmentationOf(LabelVolume("uint8", <<2, 2, 2>>))
    /\ \E offsets \in [DOMAIN SourceLandmarks -> AffineOffsets] :
          reference_points =
              [f \in ReferencePointFields |->
                  IF f = TRA_PDF THEN ShiftedLandmarks(offsets)
                  ELSE FixedReferencePoints[f]]
    /\ FreshStudy
    /\ IdleSeries
    /\ IdleExt

SpecAffine == InitAffine /\ [][NextLandmark]_vars

(***************************************************************************)
(* structs.py: ReferencePoints.load_from_json_obj                          *)
(***************************************************************************)
required_labels == landmark_names

\* Control points a landmark file may hold, in file order: one for each
\* required label, one of another label, and a second one for the first
\* required label.
CandidatePoints ==
    [n \in 1..Len(required_labels) |->
        [label |-> required_labels[n], position |-> <<n, 0, 0>>]]
    \o << [label |-> "other_point", position |-> <<7, 7, 7>>],
          [label |-> required_labels[1], position |-> <<9, 9, 9>>] >>

\* What a file does with a candidate: leaves it out, holds it, or holds it
\* with an empty position.
PointChoices ==
    { ch \in [1..Len(CandidatePoints) -> {"absent", "present", "no_position"}] :
        \A n \in (Len(required_labels) + 1)..Len(CandidatePoints) : ch[n] # "no_position" }

RECURSIVE ControlPointsOf(_, _)
ControlPointsOf(ch, n) ==
    IF n = 0 THEN <<>>
    ELSE ControlPointsOf(ch, n - 1)
         \o (CASE ch[n] = "absent"      -> <<>>
               [] ch[n] = "present"     -> <<CandidatePoints[n]>>
               [] ch[n] = "no_position" ->
                    <<[CandidatePoints[n] EXCEPT !.position = <<>>]>>)

\* The parsed files: without markups, with a markup without control
\* points, and with the control points of a choice.
JsonObjects ==
    { [markups |-> <<>>], [markups |-> <<[controlPoints |-> <<>>]>>] }
    \cup { [markups |-> <<[controlPoints |-> ControlPointsOf(ch, Len(CandidatePoints))]>>]
            : ch \in PointChoices }

\* points_dict: label -> position of the last control point that has both.
RECURSIVE points_dict(_)
points_dict(control_points) ==
    IF control_points = <<>> THEN [l \in {} |-> <<>>]
    ELSE LET point == control_points[Len(control_points)]
             before == points_dict(SubSeq(control_points, 1, Len(control_points) - 1))
         IN  IF point.label # "" /\ point.position # <<>>
             THEN [l \in DOMAIN before \cup {point.label} |->
                      IF l = point.label THEN point.position ELSE before[l]]
             ELSE before

NoReferencePoints == [n \in 1..Len(required_labels) |-> <<>>]

\* ReferencePoints.load_from_json_obj(json_obj): [error, produced, points],
\* points in the order of required_labels.
load_from_json_obj(obj) ==
    IF obj.markups = <<>>
    THEN [error |-> "ValueError:no markups", produced |-> FALSE, points |-> NoReferencePoints]
    ELSE IF obj.markups[1].controlPoints = <<>>
    THEN [error |-> "ValueError:no control points", produced |-> FALSE,
          points |-> NoReferencePoints]
    ELSE Only({ IF \E n \in 1..Len(required_labels) : required_labels[n] \notin DOMAIN d
                THEN [error |-> "ValueError:missing labels", produced |-> FALSE,
                      points |-> NoReferencePoints]
                ELSE [error |-> "ok", produced |-> TRUE,
                      points |-> [n \in 1..Len(required_labels) |-> d[required_labels[n]]]]
                : d \in {points_dict(obj.markups[1].controlPoints)} })

NotLoaded == [error |-> "none", produced |-> FALSE, points |-> NoReferencePoints]

InitLoader ==
    /\ json_obj \in JsonObjects
    /\ load_result = NotLoaded
    /\ IdleSeries
    /\ IdleStudy
    /\ IdleIndex
    /\ IdleThreads
    /\ IdleNormal
    /\ IdleCoord

\* points = ReferencePoints.load_from_json_obj(json_obj)
LoadFromJsonObj ==
    /\ load_result = NotLoaded
    /\ load_result' = load_from_json_obj(json_obj)
    /\ UNCHANGED <<json_obj, series_vars, study_vars, index_vars, thread_vars, normal_vars, coord_vars>>

NextLoader == LoadFromJsonObj

SpecLoader == InitLoader /\ [][NextLoader]_vars

(***************************************************************************)
(* metadata/read.py: build_study_dict_concurrent                           *)
(***************************************************************************)
StudyIds == {"study_a", "study_b"}

\* An archive holds files of some studies, or cannot be read as a tar file.
Archives(path) ==
    { [path |-> path, readable |-> TRUE, studies |-> ids] : ids \in SUBSET StudyIds }
    \cup { [path |-> path, readable |-> FALSE, studies |-> {}] }

\* The entry build_study_map makes for a study found in an archive: it names
\* the archive, and lists the series of the study the archive holds.
StudyMetadata(archive, study_uid) ==
    [file_path |-> archive.path, study_instance_uid |-> study_uid,
     series |-> {<<study_uid, archive.path>>}]

\* A reader that makes an entry for an archive it cannot read.
build_study_map_lenient(archive) ==
    [error |-> "ok",
     map |-> [id \in (IF archive.readable THEN archive.studies ELSE {"study_a"}) |->
                StudyMetadata(archive, id)]]

\* build_study_map(dicom_path, ignore, debug): raises when tarfile.open or
\* dcmread does.
build_study_map(archive) ==
    IF ~archive.readable
    THEN [error |-> "ReadError", map |-> <<>>]
    ELSE [error |-> "ok",
          map |-> [id \in archive.studies |-> StudyMetadata(archive, id)]]

NoHolder == 0

lock_acquire_unguarded(l) == TRUE

\* threading.Lock: acquired only while no thread holds it
lock_acquire(l) == l = NoHolder

\* dict.__setitem__
SetItem(d, key, value) ==
    [k \in DOMAIN d \cup {key} |-> IF k = key THEN value ELSE d[k]]

Submitted == [pc |-> "submitted", local_study_map |-> <<>>, todo |-> {}, error |-> "ok"]

NotReturned == [produced |-> FALSE, map |-> <<>>]

InitIndex ==
    /\ archive_paths \in { a \in [1..MaxArchives -> UNION { Archives(p) : p \in 1..MaxArchives }]
                            : \A p \in 1..MaxArchives : a[p].path = p }
    /\ workers = [w \in 1..MaxArchives |-> Submitted]
    /\ study_map = <<>>
    /\ lock = NoHolder
    /\ merge_order = <<>>
    /\ index_result = NotReturned
    /\ IdleSeries
    /\ IdleStudy
    /\ IdleLoader
    /\ IdleThreads
    /\ IdleNormal
    /\ IdleCoord

\* local_study_map = build_study_map(dicom_path, ignore=ignore, debug=debug)
BuildLocalMap(w) ==
    /\ workers[w].pc = "submitted"
    /\ \E r \in {build_study_map(archive_paths[w])} :
          workers' = [workers EXCEPT ![w] =
              IF r.error # "ok"
              THEN [@ EXCEPT !.pc = "failed", !.error = r.error]
              ELSE [@ EXCEPT !.pc = "built", !.local_study_map = r.map]]
    /\ UNCHANGED <<archive_paths, study_map, lock, merge_order, index_result>>
    /\ UNCHANGED <<series_vars, study_vars, loader_vars, thread_vars, normal_vars, coord_vars>>

\* with lock:   (entry)
AcquireLock(w) ==
    /\ workers[w].pc = "built"
    /\ lock_acquire(lock)
    /\ lock' = w
    /\ workers' = [workers EXCEPT ![w] =
          [@ EXCEPT !.pc = "merging", !.todo = DOMAIN workers[w].local_study_map]]
    /\ UNCHANGED <<archive_paths, study_map, merge_order, index_result>>
    /\ UNCHANGED <<series_vars, study_vars, loader_vars, thread_vars, normal_vars, coord_vars>>

\* study_map.update(local_study_map), one key of the local map at a time
UpdateKey(w) ==
    /\ workers[w].pc = "merging"
    /\ \E key \in workers[w].todo :
          /\ study_map' = SetItem(study_map, key, workers[w].local_study_map[key])
          /\ workers' = [workers EXCEPT ![w] = [@ EXCEPT !.todo = @ \ {key}]]
    /\ UNCHANGED <<archive_paths, lock, merge_order, index_result>>
    /\ UNCHANGED <<series_vars, study_vars, loader_vars, thread_vars, normal_vars, coord_vars>>

\* with lock:   (exit)
ReleaseLock(w) ==
    /\ workers[w].pc = "merging"
    /\ workers[w].todo = {}
    /\ lock' = NoHolder
    /\ merge_order' = Append(merge_order, w)
    /\ workers' = [workers EXCEPT ![w] = [@ EXCEPT !.pc = "done"]]
    /\ UNCHANGED <<archive_paths, study_map, index_result>>
    /\ UNCHANGED <<series_vars, study_vars, loader_vars, thread_vars, normal_vars, coord_vars>>

\* concurrent.futures.wait(futures); the exceptions of the futures are
\* printed; return study_map
ReturnStudyMap ==
    /\ ~index_result.produced
    /\ \A w \in 1..MaxArchives : workers[w].pc \in {"done", "failed"}
    /\ index_result' = [produced |-> TRUE, map |-> study_map]
    /\ UNCHANGED <<archive_paths, workers, study_map, lock, merge_order>>
    /\ UNCHANGED <<series_vars, study_vars, loader_vars, thread_vars, normal_vars, coord_vars>>

NextIndex ==
    \/ \E w \in 1..MaxArchives : BuildLocalMap(w)
    \/ \E w \in 1..MaxArchives : AcquireLock(w)
    \/ \E w \in 1..MaxArchives : UpdateKey(w)
    \/ \E w \in 1..MaxArchives : ReleaseLock(w)
    \/ ReturnStudyMap

SpecIndex == InitIndex /\ [][NextIndex]_vars

(***************************************************************************)
(* structs.py: Study.read_image called from several threads                *)
(***************************************************************************)
Threads == {1, 2}

\* setattr that adds the slices to the series already in the slot
setattr_extend(c, attr, series) ==
    [c EXCEPT ![attr] = SomeSeries(c[attr].dataset \o series.dataset)]

\* setattr(self, cache_attr, dataset)
setattr(c, attr, series) == [c EXCEPT ![attr] = series]

NotCalling == [pc |-> "idle", calls |-> 0, late |-> FALSE, error |-> "ok",
               hit |-> FALSE, dataset |-> NoSeries, object |-> 0,
               series |-> NoSeries, result_object |-> 0]

\* Every thread has made a call and none is inside one.
AllReturned ==
    \A t \in Threads : threads[t].calls >= 1 /\ threads[t].pc \in {"returned", "raised"}

\* One Study, a modality whose path is unset or set and whose directory is
\* missing, sound or unsound, and threads that have not called yet.
InitThreads ==
    /\ race_mod \in ModalityType
    /\ paths \in { p \in [ModalityType -> {NoPath, SomePath}]
                    : \A m \in ModalityType \ {race_mod} : p[m] = SomePath }
    /\ files \in { f \in [ModalityType -> {NoDir, UnsortedDir, UnsoundDir}]
                    : \A m \in ModalityType \ {race_mod} : f[m] = UnsortedDir }
    /\ segmentation = SegmentationOf(LabelVolume("uint8", <<2, 2, 2>>))
    /\ reference_points = FixedReferencePoints
    /\ FreshStudy
    /\ threads = [t \in Threads |-> NotCalling]
    /\ slot_object = [a \in CacheAttrs |-> 0]
    /\ IdleSeries
    /\ IdleLoader
    /\ IdleIndex
    /\ IdleNormal
    /\ IdleCoord

\* read_image(mod) up to the path tests: the cached series is returned, or
\* ValueError is raised, or the thread goes on to load.
ThreadCheck(t) ==
    /\ threads[t].pc \in {"idle", "returned", "raised"}
    /\ threads[t].calls < MaxReads
    /\ \E call_no \in {threads[t].calls + 1}, late \in {AllReturned} :
          threads' = [threads EXCEPT ![t] =
              IF is_cached(cache, race_mod)
              THEN [NotCalling EXCEPT !.pc = "returned", !.calls = call_no, !.late = late,
                        !.hit = TRUE,
                        !.series = cache[cache_attr(race_mod)],
                        !.result_object = slot_object[cache_attr(race_mod)]]
              ELSE IF ~paths[race_mod].set
              THEN [NotCalling EXCEPT !.pc = "raised", !.calls = call_no, !.late = late,
                        !.error = "ValueError:path not set"]
              ELSE IF ~files[race_mod].exists
              THEN [NotCalling EXCEPT !.pc = "raised", !.calls = call_no, !.late = late,
                        !.error = "ValueError:path does not exist"]
              ELSE [NotCalling EXCEPT !.pc = "load", !.calls = call_no, !.late = late]]
    /\ UNCHANGED <<slot_object, race_mod, study_vars>>
    /\ UNCHANGED <<series_vars, loader_vars, index_vars, normal_vars, coord_vars>>

\* dataset = DicomDataset.read_from_files(path)
ThreadLoad(t) ==
    /\ threads[t].pc = "load"
    /\ \E r \in {read_from_files(files[race_mod])} :
          IF r.error # "ok"
          THEN /\ threads' = [threads EXCEPT ![t] = [@ EXCEPT !.pc = "raised",
                                                              !.error = r.error]]
               /\ UNCHANGED loads
          ELSE /\ loads' = [loads EXCEPT ![race_mod] = Append(@, r.dataset)]
               /\ threads' = [threads EXCEPT ![t] =
                     [@ EXCEPT !.pc = "store", !.dataset = SomeSeries(r.dataset),
                               !.object = Len(loads[race_mod]) + 1]]
    /\ UNCHANGED <<paths, files, cache, segmentation, reference_points, call,
                   result_series, result_pixels, lm, slot_object, race_mod>>
    /\ UNCHANGED <<series_vars, loader_vars, index_vars, normal_vars, coord_vars>>

\* setattr(self, cache_attr, dataset); return dataset
ThreadStore(t) ==
    /\ threads[t].pc = "store"
    /\ cache' = setattr(cache, cache_attr(race_mod), threads[t].dataset)
    /\ slot_object' = [slot_object EXCEPT ![cache_attr(race_mod)] = threads[t].object]
    /\ threads' = [threads EXCEPT ![t] =
          [@ EXCEPT !.pc = "returned", !.series = threads[t].dataset,
                    !.result_object = threads[t].object]]
    /\ UNCHANGED <<paths, files, loads, segmentation, reference_points, call,
                   result_series, result_pixels, lm, race_mod>>
    /\ UNCHANGED <<series_vars, loader_vars, index_vars, normal_vars, coord_vars>>

NextThreads ==
    \/ \E t \in Threads : ThreadCheck(t)
    \/ \E t \in Threads : ThreadLoad(t)
    \/ \E t \in Threads : ThreadStore(t)

SpecThreads == InitThreads /\ [][NextThreads]_vars

(***************************************************************************)
(* dicom_dataset.py: DicomDataset.infer_slice_normal                       *)
(***************************************************************************)
\* The whole root of n, for the squares the axis aligned vectors give.
ISqrt(n) == CHOOSE r \in 0..n : r * r <= n /\ (r + 1) * (r + 1) > n

\* np.linalg.norm(v)
Norm(v) == ISqrt(Dot(v, v))

\* v / np.linalg.norm(v): the components are num / den; with den = 0 they
\* are 0/0, which numpy makes nan.
Normalized(v) == [num |-> v, den |-> Norm(v)]

negate_never(slice_normal, slice_direction) == FALSE

\* np.dot(slice_normal, slice_direction) < 0; a comparison with nan is False
negate(slice_normal, slice_direction) ==
    /\ slice_normal.den # 0
    /\ slice_direction.den # 0
    /\ Dot(slice_normal.num, slice_direction.num) < 0

NotInferred == [called |-> FALSE, error |-> "none", normal |-> [num |-> <<0, 0, 0>>, den |-> 0]]

Inferred(error, normal) == [called |-> TRUE, error |-> error, normal |-> normal]

\* DicomDataset.infer_slice_normal() on a series whose dataset is ds
infer_slice_normal(ds) ==
    IF Len(ds) = 0 THEN Inferred("IndexError", NotInferred.normal)
    ELSE IF Len(ds) < 2 THEN Inferred("ok", Normalized(SliceNormal(ds[1])))
    ELSE IF ~ds[1].hasIPP \/ ~ds[Len(ds)].hasIPP
    THEN Inferred("AttributeError", NotInferred.normal)
    ELSE Only({ IF negate(slice_normal, slice_direction)
                THEN Inferred("ok", [slice_normal EXCEPT !.num = VScale(-1, slice_normal.num)])
                ELSE Inferred("ok", slice_normal)
                : slice_normal \in {Normalized(SliceNormal(ds[1]))},
                  slice_direction \in {Normalized(VSub(ds[Len(ds)].ImagePositionPatient,
                                                       ds[1].ImagePositionPatient))} })

InitNormal ==
    /\ dcm_list \in SliceLists
    /\ force \in BOOLEAN
    /\ dataset = <<>>
    /\ series_state = "none"
    /\ series_error = "ok"
    /\ sort_calls = 0
    /\ prev_dataset = <<>>
    /\ last_op = "none"
    /\ normal_result = NotInferred
    /\ IdleStudy
    /\ IdleLoader
    /\ IdleIndex
    /\ IdleThreads
    /\ IdleCoord

\* normal = series.infer_slice_normal()
InferSliceNormal ==
    /\ series_state = "constructed"
    /\ normal_result' = infer_slice_normal(dataset)
    /\ UNCHANGED <<series_vars, study_vars, loader_vars, index_vars, thread_vars, coord_vars>>

NextNormal == Construct \/ Sort \/ InferSliceNormal

SpecNormal == InitNormal /\ [][NextNormal]_vars

(***************************************************************************)
(* patient_reference_landmark_registration.py: patient_to_image_coordinate *)
(* called on its own                                                       *)
(***************************************************************************)
\* Slice lists in any order, as a forced Series holds them: 1 to 3 slices
\* at heights 0, 1 and 3 (two of them may coincide), the second slice
\* shifted in its plane or not, pixels of 2 by 2.
CoordSeries ==
    UNION { { [n \in 1..len |->
                 SliceAt(n, <<(IF n = 2 THEN shift ELSE 0), 0, zs[n]>>, iop,
                         <<2, 2>>, <<2, 2>>)]
              : zs \in [1..len -> {0, 1, 3}], shift \in {0, 2},
                iop \in {IopAxial, IopAxialFlipped} }
            : len \in 1..3 }

\* Points on and between the voxel centres, in and out of the volume, on,
\* between and midway between the slices.
CoordPoints == (-3..4) \X {-1, 0, 5} \X (0..3)

NotConverted == [called |-> FALSE, c |-> <<>>, returned |-> <<>>, warnings |-> {}]

InitCoord ==
    /\ coord_series \in CoordSeries
    /\ coord_point \in CoordPoints
    /\ coord_result = NotConverted
    /\ IdleSeries
    /\ IdleStudy
    /\ IdleLoader
    /\ IdleIndex
    /\ IdleThreads
    /\ IdleNormal

\* returned = patient_to_image_coordinate(coord_point, series)
PatientToImageCoordinate ==
    /\ ~coord_result.called
    /\ \E c \in {ImageCoordinate(coord_point, coord_series)} :
          coord_result' = [called |-> TRUE, c |-> c, returned |-> ReturnedTriple(c),
                           warnings |-> BoundsWarnings(c, coord_series)]
    /\ UNCHANGED <<coord_series, coord_point>>
    /\ UNCHANGED <<series_vars, study_vars, loader_vars, index_vars, thread_vars,
                   normal_vars>>

NextCoord == PatientToImageCoordinate

SpecCoord == InitCoord /\ [][NextCoord]_vars

(***************************************************************************)
(* Claims about the Series (SpecSeries).                                   *)
(***************************************************************************)
Range(seq) == {seq[i] : i \in 1..Len(seq)}

IndexIn(seq, s) == CHOOSE k \in 1..Len(seq) : seq[k] = s

Mismatched(l) ==
    \E i \in 1..Len(l) : \/ l[i].SeriesInstanceUID # l[1].SeriesInstanceUID
                         \/ l[i].StudyInstanceUID # l[1].StudyInstanceUID
                         \/ l[i].shape # l[1].shape

\* C2: a construction that is not forced fails on an empty list and on a
\* list whose slices differ in SeriesInstanceUID, StudyInstanceUID or pixel
\* shape; every Series so constructed is non-empty, uniform in the three,
\* holds no SEG slice and has ImagePositionPatient on every slice.
C2_SeriesInvariant ==
    (last_op # "none" /\ ~force) =>
        /\ (dcm_list = <<>> \/ Mismatched(dcm_list)) => series_state = "failed"
        /\ series_state = "constructed" =>
              /\ dataset # <<>>
              /\ ~Mismatched(dataset)
              /\ \A i \in 1..Len(dataset) : dataset[i].Modality # "SEG"
              /\ \A i \in 1..Len(dataset) : dataset[i].hasIPP

C2_Witness ==
    /\ ~force
    /\ series_state = "failed"
    /\ series_error = "ValueError:shape"
    /\ Len(dcm_list) = MaxSlices

\* C3: a construction that is not forced fails or yields a series on which
\* is_sorted is true, and is_sorted is true after a sort() call that
\* returned, whatever the order before.
C3_SortedAfterConstructionAndSort ==
    /\ (series_state = "constructed" /\ ~force /\ last_op = "construct")
          => (~_is_sorted_raises(dataset) /\ _is_sorted(dataset))
    /\ (last_op = "sort" /\ series_error = "ok")
          => (~_is_sorted_raises(dataset) /\ _is_sorted(dataset))

\* The projection sort() orders by: along the normal of the first slice of
\* the list it was given, from that slice.
KeyIn(before, s) ==
    Dot(VSub(s.ImagePositionPatient, before[1].ImagePositionPatient),
        SliceNormal(before[1]))

\* C4: sort() returns a permutation of the list it was given, in
\* non-decreasing projection, slices of equal projection in their prior
\* relative order; input projections (2, 0, 1) give [slice_1, slice_2,
\* slice_0].
C4_SortStableAscending ==
    /\ sort_calls >= 1 =>
          /\ Len(dataset) = Len(prev_dataset)
          /\ Range(dataset) = Range(prev_dataset)
          /\ \A i \in 1..(Len(dataset) - 1) :
                KeyIn(prev_dataset, dataset[i]) <= KeyIn(prev_dataset, dataset[i + 1])
          /\ \A i, j \in 1..Len(dataset) :
                (i < j /\ KeyIn(prev_dataset, dataset[i]) = KeyIn(prev_dataset, dataset[j]))
                   => IndexIn(prev_dataset, dataset[i]) < IndexIn(prev_dataset, dataset[j])
    /\ (/\ sort_calls >= 1
        /\ Len(prev_dataset) = 3
        /\ \A i \in 1..3 : prev_dataset[i].hasIPP
        /\ Positions(prev_dataset) = <<0, -2, -1>>)
          => dataset = <<prev_dataset[2], prev_dataset[3], prev_dataset[1]>>

C4_Witness ==
    /\ sort_calls >= 1
    /\ Len(prev_dataset) = 3
    /\ Positions(prev_dataset) = <<0, -2, -1>>
    /\ dataset = <<prev_dataset[2], prev_dataset[3], prev_dataset[1]>>

ExactlyOrdered(series) ==
    \A i \in 1..(Len(series) - 1) : Positions(series)[i] <= Positions(series)[i + 1]

Registrars == {"register_segmentation", "register_segmentation_with_filtered_landmarks"}

\* C1: either registrar, called with the native modality COR_T1, returns
\* study.segmentation.pixels unchanged, whatever the shape and the labels.
C1_IdentityRegistration ==
    (call.op \in Registrars /\ call.modality = COR_T1) =>
        /\ call.error = "ok"
        /\ result_pixels = segmentation.pixels

C1_Witness ==
    /\ call.op = "register_segmentation_with_filtered_landmarks"
    /\ call.modality = COR_T1
    /\ call.error = "ok"
    /\ result_pixels = segmentation.pixels
    /\ result_pixels.shape = <<1, 2, 3>>
    /\ \E m \in ModalityType : Len(loads[m]) > 0

\* C9: the series of a modality is loaded from disk at most once; the
\* first read_image that succeeds fills the slot of the modality, and
\* every later one returns that series from the slot and loads nothing.
C9_SeriesLoadedAtMostOnce ==
    /\ \A m \in ModalityType :
          /\ Len(loads[m]) <= 1
          /\ cache[cache_attr(m)].loaded <=> Len(loads[m]) = 1
          /\ cache[cache_attr(m)].loaded => cache[cache_attr(m)].dataset = loads[m][1]
    /\ (call.op = "read_image" /\ call.error = "ok") =>
          /\ result_series = cache[cache_attr(call.modality)]
          /\ result_series = SomeSeries(loads[call.modality][1])

C9_Witness ==
    /\ call.op = "read_image"
    /\ call.modality = COR_T1
    /\ call.error = "ok"
    /\ call.hit
    /\ Len(loads[COR_T1]) = 1
    /\ result_series = cache["cor_t2_images"]

\* C15: a Study owns a ReferencePoints set for each of the four
\* modalities, so the landmark registrar finds the target landmark set of
\* whatever modality it is asked to register to.
C15_ReferencePointsForEveryModality ==
    (/\ call.op = "register_segmentation_with_filtered_landmarks"
     /\ call.modality # COR_T1
     /\ cache[cache_attr(COR_T1)].loaded
     /\ cache[cache_attr(call.modality)].loaded) =>
        /\ call.modality \in DOMAIN reference_points
        /\ call.error # "AttributeError"

\* A step of a registrar call: the call itself, or a later step of the
\* landmark registrar.
RegistrarStep == call'.op \in Registrars

SourceSeries == cache[cache_attr(COR_T1)].dataset

TargetSeries == cache[cache_attr(call.modality)].dataset

CoordinateNum(v) ==
    LET src == Geometry(SourceSeries)
        delta == VSub(PatientPos(Geometry(TargetSeries), v[1], v[2], v[3]), src.origin)
    IN  << Dot(delta, src.row_dir), Dot(delta, src.col_dir), Dot(delta, src.slice_dir) >>

CoordinateDen ==
    LET src == Geometry(SourceSeries)
    IN  << src.pixel_spacing[1], src.pixel_spacing[2], src.slice_spacing >>

\* i is num / den rounded to the nearest whole number, a tie to the even one.
IsRounded(i, num, den) ==
    \/ 2 * Abs(num - i * den) < den
    \/ 2 * Abs(num - i * den) = den /\ i % 2 = 0

\* The rounded source index of v lies outside the source volume on axis a.
RoundsOutside(v, a) ==
    \A i \in 0..(segmentation.pixels.shape[a] - 1) :
        ~IsRounded(i, CoordinateNum(v)[a], CoordinateDen[a])

DenseReturned ==
    /\ call.op = "register_segmentation"
    /\ call.modality # COR_T1
    /\ call.error = "ok"

\* C6: a target voxel whose rounded source index lies outside the source
\* volume on some axis gets label 0, and the source volume is never read
\* outside its bounds.
C6_OutOfBoundsFill ==
    /\ call.op = "register_segmentation" => call.error # "IndexError"
    /\ DenseReturned =>
          \A v \in Grid(result_pixels.shape) :
              (\E a \in 1..3 : RoundsOutside(v, a)) => result_pixels.data[v] = 0

C6_Witness ==
    /\ DenseReturned
    /\ \E v \in Grid(result_pixels.shape) :
          /\ CoordinateNum(v)[1] < 0
          /\ RoundsOutside(v, 1)
          /\ result_pixels.data[v] = 0
    /\ \E v \in Grid(result_pixels.shape) : result_pixels.data[v] # 0

\* C7: a target voxel whose rounded source index lies inside the source
\* volume holds the source label at that index; every value of the output
\* is 0 or a label of the source; the output has the shape (rows, columns,
\* slices) of the target grid and the dtype of the source labels.
C7_NearestNeighbourCopy ==
    DenseReturned =>
        /\ \A v \in Grid(result_pixels.shape), idx \in Grid(segmentation.pixels.shape) :
              (\A a \in 1..3 : IsRounded(idx[a], CoordinateNum(v)[a], CoordinateDen[a]))
                 => result_pixels.data[v] = segmentation.pixels.data[idx]
        /\ \A v \in Grid(result_pixels.shape) :
              \/ result_pixels.data[v] = 0
              \/ \E idx \in Grid(segmentation.pixels.shape) :
                    result_pixels.data[v] = segmentation.pixels.data[idx]
        /\ result_pixels.shape = << TargetSeries[1].shape[1], TargetSeries[1].shape[2],
                                    Len(TargetSeries) >>
        /\ result_pixels.dtype = segmentation.pixels.dtype

C7_Witness ==
    /\ DenseReturned
    /\ result_pixels.shape = <<1, 3, 2>>
    /\ \E v \in Grid(result_pixels.shape), idx \in Grid(segmentation.pixels.shape) :
          /\ \A a \in 1..3 : IsRounded(idx[a], CoordinateNum(v)[a], CoordinateDen[a])
          /\ 2 * Abs(CoordinateNum(v)[1] - idx[1] * CoordinateDen[1]) = CoordinateDen[1]
          /\ result_pixels.data[v] = segmentation.pixels.data[idx]

(***************************************************************************)
(* Claims about the landmark registrar (SpecLandmark).                     *)
(***************************************************************************)
Filtered == lm.pc \in {"convert", "estimate"}

SquaredDistance(name) ==
    LET d == VSub(reference_points[COR_T1][name], reference_points[lm.modality][name])
    IN  Dot(d, d)

\* C8: a landmark pair is kept iff the distance between its source and its
\* target point is below max_distance_mm; a pair at the threshold is not
\* kept.
C8_FilterStrictlyBelowThreshold ==
    Filtered =>
        \A n \in 1..Len(landmark_names) :
            (landmark_names[n] \in Range(lm.used_landmarks))
               <=> SquaredDistance(landmark_names[n])
                      < lm.max_distance_mm * lm.max_distance_mm

C8_Witness ==
    /\ Filtered
    /\ \E n \in 1..Len(landmark_names) :
          /\ SquaredDistance(landmark_names[n]) = lm.max_distance_mm * lm.max_distance_mm
          /\ landmark_names[n] \notin Range(lm.used_landmarks)
    /\ \E n \in 1..Len(landmark_names) :
          /\ SquaredDistance(landmark_names[n]) > 0
          /\ landmark_names[n] \in Range(lm.used_landmarks)

\* C10: patient_to_image_coordinate returns (column_index, row_index,
\* slice_index): first the index along the row cosines (by the column
\* spacing), then the index along the column cosines (by the row spacing),
\* then the slice.
C10_TripleIsColumnRowSlice ==
    lm.pc = "estimate" =>
        /\ \A n \in 1..Len(lm.src_points_whd) :
              lm.src_points_whd[n]
                 = ReturnedTripleIJK(ImageCoordinate(lm.filtered_src_patient[n],
                                                     lm.src_dcm.dataset))
        /\ \A n \in 1..Len(lm.tgt_points_whd) :
              lm.tgt_points_whd[n]
                 = ReturnedTripleIJK(ImageCoordinate(lm.filtered_tgt_patient[n],
                                                     lm.target_dcm.dataset))

\* The indices patient_to_image_coordinate computed for a point of a series
\* that lie outside [0, dimension) of their own axis: i counts columns, j
\* counts rows, k counts slices.
OutOfRange(patient_coordinate, ds) ==
    LET c == ImageCoordinate(patient_coordinate, ds)
        shape == PixelArrayShape(ds)
    IN  (IF c.i_num < 0 \/ c.i_num >= shape[3] * c.den THEN {"i"} ELSE {})
        \cup (IF c.j_num < 0 \/ c.j_num >= shape[2] * c.den THEN {"j"} ELSE {})
        \cup (IF c.k < 0 \/ c.k >= shape[1] THEN {"k"} ELSE {})

\* C11: patient_to_image_coordinate does not raise for an index out of
\* range; every computed index outside [0, dimension) of its own axis is
\* flagged with a warning, and the triple is returned as computed, neither
\* clamped nor replaced.
C11_OutOfRangeFlaggedAndReturned ==
    lm.pc = "estimate" =>
        /\ Len(lm.src_points_whd) = Len(lm.filtered_src_patient)
        /\ Len(lm.tgt_points_whd) = Len(lm.filtered_tgt_patient)
        /\ \A n \in 1..Len(lm.src_points_whd) :
              /\ OutOfRange(lm.filtered_src_patient[n], lm.src_dcm.dataset)
                    \subseteq lm.src_warnings[n]
              /\ lm.src_points_whd[n]
                    = ReturnedTriple(ImageCoordinate(lm.filtered_src_patient[n],
                                                    lm.src_dcm.dataset))
        /\ \A n \in 1..Len(lm.tgt_points_whd) :
              /\ OutOfRange(lm.filtered_tgt_patient[n], lm.target_dcm.dataset)
                    \subseteq lm.tgt_warnings[n]
              /\ lm.tgt_points_whd[n]
                    = ReturnedTriple(ImageCoordinate(lm.filtered_tgt_patient[n],
                                                    lm.target_dcm.dataset))

\* The landmark registrar call has ended, having passed its filter.
LandmarksEnded == lm.pc \in {"returned", "raised"}

\* C13: with fewer than 4 landmark pairs kept by the filter the landmark
\* registrar ends in an error and returns no resampled volume.
C13_FewerThanFourPairsAbort ==
    (LandmarksEnded /\ Len(lm.used_landmarks) < 4) =>
        /\ lm.pc = "raised"
        /\ call.error \notin {"ok", "running"}
        /\ result_pixels = NoPixels

\* The estimated linear part M of the call is singular.
SingularFit == lm.rank > 0 /\ Det3(lm.M) = 0

\* C14: when the estimated M is singular the inversion fails, the call
\* ends in that error, and nothing is resampled or returned.
C14_SingularFitAborts ==
    /\ (SingularFit /\ lm.pc \notin {"diagnose", "apply"}) =>
          /\ lm.pc = "raised"
          /\ call.error = "LinAlgError"
          /\ result_pixels = NoPixels
    /\ (lm.pc = "raised" /\ call.error = "LinAlgError") => SingularFit

C14_Witness ==
    /\ SingularFit
    /\ Len(lm.used_landmarks) >= 4
    /\ lm.pc = "raised"
    /\ call.error = "LinAlgError"
    /\ result_pixels = NoPixels

(***************************************************************************)
(* Claims about the affine fit (SpecAffine).                               *)
(***************************************************************************)
\* Some four of the points span space.
NonCoplanar(points) ==
    \E a, b, c, d \in 1..Len(points) :
        Det3(<< VSub(points[b], points[a]), VSub(points[c], points[a]),
                VSub(points[d], points[a]) >>) # 0

KnownTranslations == { <<0, 0, 0>>, <<1, 0, 0>>, <<2, 0, 0>>, <<0, 1, 0>>, <<1, 1, 0>> }

\* The kept pairs are at least 4, not coplanar, and every target point is
\* its source point moved by t.
ExactTranslation(t) ==
    /\ lm.pc \in {"apply", "returned", "raised"}
    /\ Len(lm.src_points_whd) >= 4
    /\ NonCoplanar(lm.src_points_whd)
    /\ \A n \in 1..Len(lm.src_points_whd) :
          lm.tgt_points_whd[n] = VAdd(lm.src_points_whd[n], t)

InVolume(idx, shape) == \A a \in 1..3 : 0 <= idx[a] /\ idx[a] < shape[a]

\* C17: from at least 4 pairs that are not coplanar and whose image points
\* are related by a known affine transform without noise (here target =
\* source + t) the estimate is that transform (M the identity, offset t),
\* every landmark error is 0, and output voxel o holds the source label at
\* M^-1 (o - offset), or 0 when that index is outside the source volume.
C17_ExactAffineRecovered ==
    \A t \in KnownTranslations :
        ExactTranslation(t) =>
            /\ lm.M = MatScale(lm.den, IdentityMatrix(3))
            /\ lm.offset = VScale(lm.den, t)
            /\ \A n \in 1..Len(lm.landmark_errors) : lm.landmark_errors[n] = 0
            /\ lm.pc # "raised"
            /\ lm.pc = "returned" =>
                  /\ call.error = "ok"
                  /\ \A o \in Grid(result_pixels.shape) :
                        result_pixels.data[o] =
                            IF InVolume(VSub(o, t), segmentation.pixels.shape)
                            THEN segmentation.pixels.data[VSub(o, t)]
                            ELSE 0

C17_Witness ==
    /\ ExactTranslation(<<1, 0, 0>>)
    /\ lm.pc = "returned"
    /\ lm.offset = VScale(lm.den, <<1, 0, 0>>)
    /\ result_pixels.shape = <<2, 3, 2>>
    /\ result_pixels.data[<<0, 0, 0>>] = 0
    /\ result_pixels.data[<<1, 1, 1>>] = segmentation.pixels.data[<<0, 1, 1>>]

(***************************************************************************)
(* Claims about the landmark file (SpecLoader).                            *)
(***************************************************************************)
\* The labels a file supplies: those of its control points that have a
\* position.
SuppliedLabels ==
    IF json_obj.markups = <<>> THEN {}
    ELSE { json_obj.markups[1].controlPoints[n].label :
             n \in { m \in 1..Len(json_obj.markups[1].controlPoints) :
                        json_obj.markups[1].controlPoints[m].position # <<>> } }

\* C12: load_from_json_obj succeeds only when the file supplies exactly
\* the six canonical labels; for any other label set it fails with an
\* error and produces no ReferencePoints.
C12_LoadsOnlyExactlySixLabels ==
    load_result # NotLoaded =>
        /\ load_result.produced <=> load_result.error = "ok"
        /\ load_result.produced <=> SuppliedLabels = Range(required_labels)

(***************************************************************************)
(* Claims about the archive index (SpecIndex).                             *)
(***************************************************************************)
Merging == { w \in 1..MaxArchives : workers[w].pc = "merging" }

Merged == { merge_order[n] : n \in 1..Len(merge_order) }

MaxOf(S) == CHOOSE x \in S : \A y \in S : y <= x

\* The last worker to have merged an entry for the key.
LastMerger(key) ==
    merge_order[MaxOf({ n \in 1..Len(merge_order) :
                        key \in DOMAIN workers[merge_order[n]].local_study_map })]

\* C18: the merges never interleave: at most one worker is merging, it
\* holds the lock, and the entries a merger has not yet written are
\* untouched by the others; the returned key set is the union of the
\* workers' keys, and every entry is wholly the entry of the worker that
\* merged last among those holding the study.
C18_MergesAreExclusiveLastWins ==
    /\ Cardinality(Merging) <= 1
    /\ \A w \in Merging : lock = w
    /\ index_result.produced =>
          /\ DOMAIN index_result.map =
                UNION { DOMAIN workers[w].local_study_map : w \in 1..MaxArchives }
          /\ \A key \in DOMAIN index_result.map :
                index_result.map[key] =
                    StudyMetadata(archive_paths[LastMerger(key)], key)

\* Two archives hold the same study, the worker of the first archive merged
\* last, and the returned entry is its entry.
C18_Witness ==
    /\ index_result.produced
    /\ "study_a" \in archive_paths[1].studies \cap archive_paths[2].studies
    /\ merge_order = <<2, 1>>
    /\ index_result.map["study_a"] = StudyMetadata(archive_paths[1], "study_a")

(***************************************************************************)
(* Claims about read_image under threads (SpecThreads).                    *)
(***************************************************************************)
RaceSlot == cache_attr(race_mod)

\* C19: threads that read the same uncached modality may load it once
\* each, and no more; the slot only ever holds a whole series made by one
\* of those loads; no other slot is touched; and a read that begins after
\* every thread has returned from a call gets the series in the slot.
C19_RaceDuplicatesLoadOnly ==
    /\ Len(loads[race_mod]) <= Cardinality(Threads)
    /\ \A a \in CacheAttrs \ {RaceSlot} : cache[a] = NoSeries /\ slot_object[a] = 0
    /\ \A m \in ModalityType \ {race_mod} : loads[m] = <<>>
    /\ cache[RaceSlot].loaded =>
          /\ slot_object[RaceSlot] \in 1..Len(loads[race_mod])
          /\ cache[RaceSlot] = SomeSeries(loads[race_mod][slot_object[RaceSlot]])
          /\ cache[RaceSlot].dataset = read_from_files(files[race_mod]).dataset
    /\ (AllReturned /\ \E t \in Threads : threads[t].pc = "returned") =>
          cache[RaceSlot].loaded
    /\ \A t \in Threads :
          (threads[t].late /\ threads[t].pc = "returned") =>
              /\ threads[t].hit
              /\ threads[t].series = cache[RaceSlot]
              /\ threads[t].result_object = slot_object[RaceSlot]

\* Both threads loaded the series, the object of the first load is the one
\* that stayed in the slot, and a later read returned it.
C19_Witness ==
    /\ Len(loads[race_mod]) = 2
    /\ AllReturned
    /\ slot_object[RaceSlot] = 1
    /\ \E t \in Threads :
          /\ threads[t].late
          /\ threads[t].hit
          /\ threads[t].result_object = 1

(***************************************************************************)
(* Claims about the slice normal (SpecNormal).                             *)
(***************************************************************************)
InferStep == normal_result' # normal_result /\ normal_result'.error = "ok"

FirstToLast == VSub(dataset[Len(dataset)].ImagePositionPatient,
                    dataset[1].ImagePositionPatient)

\* C20: for a series of 2 or more slices infer_slice_normal returns the
\* unit cross product of the row and column cosines of the first slice,
\* negated exactly when its dot product with (last position - first
\* position) is negative, so the returned normal never points against
\* that vector; for a series of one slice it returns the normalized cross
\* product as it is.
C20_NormalFollowsSliceOrder ==
    [][InferStep =>
        /\ normal_result'.normal.den > 0
        /\ Dot(normal_result'.normal.num, normal_result'.normal.num)
              = normal_result'.normal.den * normal_result'.normal.den
        /\ normal_result'.normal.den = Norm(SliceNormal(dataset[1]))
        /\ Len(dataset) = 1 => normal_result'.normal.num = SliceNormal(dataset[1])
        /\ Len(dataset) >= 2 =>
              /\ Dot(normal_result'.normal.num, FirstToLast) >= 0
              /\ normal_result'.normal.num =
                    IF Dot(SliceNormal(dataset[1]), FirstToLast) < 0
                    THEN VScale(-1, SliceNormal(dataset[1]))
                    ELSE SliceNormal(dataset[1])
    ]_vars

\* The normal of a series whose slices run against the cross product was
\* returned negated.
C20_Witness ==
    /\ normal_result.called
    /\ normal_result.error = "ok"
    /\ Len(dataset) >= 2
    /\ Dot(SliceNormal(dataset[1]), FirstToLast) < 0
    /\ normal_result.normal = [num |-> VScale(-1, SliceNormal(dataset[1])), den |-> 1]

(***************************************************************************)
(* Claims about the sortedness check and the caller's list (SpecSeries).   *)
(***************************************************************************)
\* A construction that was not forced and made a Series has just ended.
Constructed == last_op = "construct" /\ ~force /\ series_state = "constructed"

\* Every consecutive pair of projections satisfies next - previous >= -tol.
RisesWithinTol(series) ==
    \A i \in 1..(Len(series) - 1) :
        Positions(series)[i + 1] - Positions(series)[i] >= -Tol

StrictlyDescending(series) ==
    \A i \in 1..(Len(series) - 1) : Positions(series)[i + 1] < Positions(series)[i]

FallsBeyondTol(series) ==
    \E i \in 1..(Len(series) - 1) :
        Positions(series)[i + 1] - Positions(series)[i] < -Tol

\* The slices are in non-decreasing projection along the normal of the
\* first slice of the list the caller gave.
AscendingFrom(before, series) ==
    \A i \in 1..(Len(series) - 1) : KeyIn(before, series[i]) <= KeyIn(before, series[i + 1])

C22_CallerListReorderedInPlace ==
    /\ (Constructed /\ sort_calls = 1) =>
          /\ dcm_list = dataset
          /\ AscendingFrom(dcm_list, dcm_list)
    /\ (last_op = "construct" /\ force) =>
          /\ series_state = "constructed"
          /\ dataset = dcm_list

\* C22 amended: a construction that is not forced and finds the input
\* unsorted gives the Series a new slice list, the slices of the caller's
\* list in canonical order, and leaves the caller's list in its original,
\* unsorted, order; when the input is found sorted the slice list is the
\* caller's list; a forced construction validates and reorders nothing
\* and the slice list is the caller's list in its original order.
C22_CallerListKept ==
    /\ (Constructed /\ sort_calls = 1) =>
          /\ dataset # dcm_list
          /\ Range(dataset) = Range(dcm_list)
          /\ Len(dataset) = Len(dcm_list)
          /\ AscendingFrom(dcm_list, dataset)
          /\ ~AscendingFrom(dcm_list, dcm_list)
    /\ (Constructed /\ sort_calls = 0) => dataset = dcm_list
    /\ (last_op = "construct" /\ force) =>
          /\ series_state = "constructed"
          /\ series_error = "ok"
          /\ sort_calls = 0
          /\ dataset = dcm_list

\* An unsorted list of the greatest length was given: the Series holds the
\* ordered slices, the caller's list is as it was.
C22_Witness ==
    /\ Constructed
    /\ sort_calls = 1
    /\ Len(dcm_list) = MaxSlices
    /\ dataset # dcm_list
    /\ ~AscendingFrom(dcm_list, dcm_list)
    /\ AscendingFrom(dcm_list, dataset)

(***************************************************************************)
(* Claims about patient_to_image_coordinate (SpecCoord).                   *)
(***************************************************************************)
\* The projection of a position along the normal of the first slice given.
Projection(position) ==
    Dot(SliceNormal(coord_series[1]),
        VSub(position, coord_series[1].ImagePositionPatient))

\* The slices in the order the call works with.
LocalOrder == SortedDatasets(coord_series)

Difference(n) ==
    Abs(Projection(LocalOrder[n].ImagePositionPatient) - Projection(coord_point))

\* C23: the call orders the slices by ascending projection along the
\* normal of the first slice, returns as k the position, counted from 0 in
\* that order, of a slice whose projection is nearest to that of the
\* point, the lowest such position on a tie, and computes the in-plane
\* indices from the ImagePositionPatient of that slice; k is at least 0
\* and less than the number of slices.
C23_NearestSliceSelected ==
    coord_result.called =>
        /\ Range(LocalOrder) = Range(coord_series)
        /\ Len(LocalOrder) = Len(coord_series)
        /\ \A n \in 1..(Len(LocalOrder) - 1) :
              Projection(LocalOrder[n].ImagePositionPatient)
                 <= Projection(LocalOrder[n + 1].ImagePositionPatient)
        /\ coord_result.c.k \in 0..(Len(coord_series) - 1)
        /\ coord_result.returned[3] = coord_result.c.k
        /\ \A n \in 1..Len(LocalOrder) : Difference(coord_result.c.k + 1) <= Difference(n)
        /\ \A n \in 1..coord_result.c.k : Difference(n) > Difference(coord_result.c.k + 1)
        /\ coord_result.c.den > 0
        /\ coord_result.c.i_num * coord_series[1].PixelSpacing[2] =
              coord_result.c.den *
                 Dot(coord_series[1].ImageOrientationPatient.row,
                     VSub(coord_point, LocalOrder[coord_result.c.k + 1].ImagePositionPatient))
        /\ coord_result.c.j_num * coord_series[1].PixelSpacing[1] =
              coord_result.c.den *
                 Dot(coord_series[1].ImageOrientationPatient.col,
                     VSub(coord_point, LocalOrder[coord_result.c.k + 1].ImagePositionPatient))

\* The slices were given out of order, the point lies midway between the
\* two lowest, the lower was selected, and it is the slice whose origin is
\* shifted in its plane.
C23_Witness ==
    /\ coord_result.called
    /\ Len(coord_series) = 3
    /\ LocalOrder # coord_series
    /\ coord_result.c.k = 0
    /\ Difference(1) = Difference(2)
    /\ Difference(1) > 0
    /\ LocalOrder[1] = coord_series[2]
    /\ LocalOrder[1].ImagePositionPatient[1] # 0

\* The in-plane solution before the conversion to int, as it is returned:
\* first the index along the column cosines, then the one along the row
\* cosines.
Solution == << coord_result.c.j_num, coord_result.c.i_num >>

\* C29: the indices returned are whole numbers, the in-plane solution
\* truncated towards zero: of the same sign as the solution or 0, and less
\* than 1 away from it on the side of zero; every solution strictly
\* between -1 and 1 gives index 0, also for a point up to one voxel before
\* the first row or column.
C29_IndicesTruncatedTowardsZero ==
    coord_result.called =>
        \A a \in 1..2 :
            /\ coord_result.returned[a] \in Int
            /\ Solution[a] >= 0 =>
                  /\ coord_result.returned[a] * coord_result.c.den <= Solution[a]
                  /\ Solution[a] < (coord_result.returned[a] + 1) * coord_result.c.den
            /\ Solution[a] <= 0 =>
                  /\ coord_result.returned[a] * coord_result.c.den >= Solution[a]
                  /\ Solution[a] > (coord_result.returned[a] - 1) * coord_result.c.den
            /\ (-coord_result.c.den < Solution[a] /\ Solution[a] < coord_result.c.den)
                  => coord_result.returned[a] = 0

\* A point half a voxel before the first column and a voxel and a half
\* before the first row: index 0 for the one, -1 for the other.
C29_Witness ==
    /\ coord_result.called
    /\ -coord_result.c.den < coord_result.c.j_num
    /\ coord_result.c.j_num < 0
    /\ 2 * coord_result.c.i_num = -3 * coord_result.c.den
    /\ coord_result.returned[1] = 0
    /\ coord_result.returned[2] = -1

(***************************************************************************)
(* Claims about the steps of the landmark registrar (SpecLandmark).        *)
(***************************************************************************)
\* The steps a call may take: from rest the filter, then the conversion,
\* the estimate, the diagnostics, the inversion with the resampling, and
\* the return; a call may end at once, the estimate and the inversion may
\* raise.
PipelineOrder ==
    (QuietPcs \X {"convert", "idle"})
    \cup { <<"convert", "estimate">>, <<"estimate", "diagnose">>, <<"estimate", "raised">>,
           <<"diagnose", "apply">>, <<"apply", "returned">>, <<"apply", "raised">> }

InProgressPcs == {"convert", "estimate", "diagnose", "apply"}

\* C24: the steps of a call run in the order filter, conversion, estimate,
\* diagnostics, inversion and resampling, return, each once and none
\* again; the diagnostics never end the call, so once the estimate
\* succeeded the resampling is made and its volume returned whenever M is
\* invertible, whatever the landmark errors are.
C24_PipelineRunsInOrder ==
    [][/\ lm'.pc # lm.pc => <<lm.pc, lm'.pc>> \in PipelineOrder
       /\ lm.pc \in InProgressPcs => lm'.pc # lm.pc
       /\ lm.pc \in InProgressPcs =>
             /\ lm'.used_landmarks = lm.used_landmarks
             /\ lm'.filtered_src_patient = lm.filtered_src_patient
             /\ lm'.filtered_tgt_patient = lm.filtered_tgt_patient
       /\ lm.pc \in {"estimate", "diagnose", "apply"} =>
             /\ lm'.src_points_whd = lm.src_points_whd
             /\ lm'.tgt_points_whd = lm.tgt_points_whd
       /\ lm.pc \in {"diagnose", "apply"} => (lm'.M = lm.M /\ lm'.offset = lm.offset)
       /\ lm.pc = "diagnose" => lm'.pc = "apply"
       /\ (lm.pc = "apply" /\ Det3(lm.M) # 0) =>
             /\ lm'.pc = "returned"
             /\ call'.error = "ok"
             /\ result_pixels'.shape = << PixelArrayShape(lm.target_dcm.dataset)[2],
                                          PixelArrayShape(lm.target_dcm.dataset)[3],
                                          PixelArrayShape(lm.target_dcm.dataset)[1] >>
      ]_vars

\* A fit that misses landmarks was resampled and returned.
C24_Witness ==
    /\ lm.pc = "returned"
    /\ call.error = "ok"
    /\ \E n \in 1..Len(lm.landmark_errors) : lm.landmark_errors[n] > 0
    /\ Len(lm.landmark_errors) = Len(lm.used_landmarks)
    /\ result_pixels # NoPixels

(***************************************************************************)
(* Claims about the normal of a constructed series (SpecNormal).           *)
(***************************************************************************)
DistinctProjections(series) ==
    \E i, j \in 1..Len(series) : Positions(series)[i] # Positions(series)[j]

\* C25: on a series made by a construction that was not forced, with 2 or
\* more slices of distinct projection, infer_slice_normal does not negate:
\* it returns the normalized cross product of the row and column cosines
\* of the first slice.
C25_NoFlipOnConstructedSeries ==
    [][(/\ InferStep
        /\ ~force
        /\ Len(dataset) >= 2
        /\ DistinctProjections(dataset))
          => normal_result'.normal = Normalized(SliceNormal(dataset[1]))]_vars

(***************************************************************************)
(* Claims about the frame of read_image (SpecStudy).                       *)
(***************************************************************************)
ReadStep == call'.op = "read_image"

\* C26: the four modalities have four different cache slots; a
\* read_image(m) call changes no slot but that of m, and no path, nor the
\* segmentation, nor the reference points; a call that raises changes no
\* slot at all and leaves the slot of m empty, so that the next call for m
\* goes to the disk again.
C26_ReadImageTouchesOwnSlotOnly ==
    [][ReadStep =>
          /\ \A m1, m2 \in ModalityType : m1 # m2 => cache_attr(m1) # cache_attr(m2)
          /\ \A a \in CacheAttrs \ {cache_attr(call'.modality)} : cache'[a] = cache[a]
          /\ \A m \in ModalityType \ {call'.modality} : loads'[m] = loads[m]
          /\ UNCHANGED <<paths, files, segmentation, reference_points>>
          /\ call'.error # "ok" =>
                /\ cache' = cache
                /\ loads' = loads
                /\ ~is_cached(cache', call'.modality)
                /\ result_series' = NoSeries
          /\ (call'.error = "ok" /\ ~call'.hit) =>
                /\ ~is_cached(cache, call'.modality)
                /\ cache'[cache_attr(call'.modality)] = result_series'
                /\ result_series'.loaded
      ]_vars

\* A read raised while the series of another modality was cached: that
\* series is still cached, the slot of the modality read is empty.
C26_Witness ==
    /\ call.op = "read_image"
    /\ call.error \notin {"ok", "running"}
    /\ ~is_cached(cache, call.modality)
    /\ \E m \in ModalityType \ {call.modality} :
          /\ is_cached(cache, m)
          /\ Len(loads[m]) = 1

(***************************************************************************)
(* Claims about the filtered landmark lists (SpecLandmark).                *)
(***************************************************************************)
PastFilter == lm.pc \in {"convert", "estimate", "diagnose", "apply", "returned", "raised"}

\* The place of a name in landmark_names.
NameIndex(name) == CHOOSE n \in 1..Len(landmark_names) : landmark_names[n] = name

\* C27: past the filter the kept source points, the kept target points and
\* the kept names are lists of one length, position n of the two point
\* lists holds the source and the target point of the landmark named at
\* position n, the names are in the order of landmark_names, and past the
\* conversion the same holds of the two lists of image points.
C27_FilteredListsAligned ==
    PastFilter =>
        /\ Len(lm.filtered_src_patient) = Len(lm.used_landmarks)
        /\ Len(lm.filtered_tgt_patient) = Len(lm.used_landmarks)
        /\ \A n \in 1..Len(lm.used_landmarks) :
              /\ lm.used_landmarks[n] \in Range(landmark_names)
              /\ lm.filtered_src_patient[n] = reference_points[COR_T1][lm.used_landmarks[n]]
              /\ lm.filtered_tgt_patient[n] = reference_points[lm.modality][lm.used_landmarks[n]]
        /\ \A n \in 1..(Len(lm.used_landmarks) - 1) :
              NameIndex(lm.used_landmarks[n]) < NameIndex(lm.used_landmarks[n + 1])
        /\ lm.pc # "convert" =>
              /\ Len(lm.src_points_whd) = Len(lm.used_landmarks)
              /\ Len(lm.tgt_points_whd) = Len(lm.used_landmarks)
              /\ \A n \in 1..Len(lm.used_landmarks) :
                    /\ lm.src_points_whd[n] =
                          patient_to_image_coordinate(
                              reference_points[COR_T1][lm.used_landmarks[n]],
                              lm.src_dcm.dataset)
                    /\ lm.tgt_points_whd[n] =
                          patient_to_image_coordinate(
                              reference_points[lm.modality][lm.used_landmarks[n]],
                              lm.target_dcm.dataset)

\* Landmarks in the middle of the list were dropped and the ones around
\* them kept and converted.
C27_Witness ==
    /\ lm.pc = "estimate"
    /\ Len(lm.used_landmarks) = 3
    /\ lm.used_landmarks[1] = landmark_names[1]
    /\ lm.used_landmarks[2] = landmark_names[4]
    /\ lm.used_landmarks[3] = landmark_names[6]
    /\ lm.filtered_tgt_patient[2] # lm.filtered_src_patient[2]
    /\ Len(lm.tgt_points_whd) = 3

(***************************************************************************)
(* Claims about rounding ties in the dense registrar (SpecDense).          *)
(***************************************************************************)
\* The source coordinate of v on axis a lies halfway between two indices.
IsTie(v, a) ==
    /\ (2 * CoordinateNum(v)[a]) % CoordinateDen[a] = 0
    /\ ((2 * CoordinateNum(v)[a]) \div CoordinateDen[a]) % 2 = 1

\* The coordinate is exactly whole - 1/2.
IsHalfBelow(v, a, whole) ==
    2 * CoordinateNum(v)[a] = (2 * whole - 1) * CoordinateDen[a]

\* The even one of the two indices around a tie.
EvenNeighbour(v, a) ==
    LET below == ((2 * CoordinateNum(v)[a]) \div CoordinateDen[a] - 1) \div 2
    IN  IF below % 2 = 0 THEN below ELSE below + 1

\* The whole number nearest to the coordinate, at a tie the even one.
NearestIndex(v, a) ==
    IF IsTie(v, a) THEN EvenNeighbour(v, a)
    ELSE CHOOSE i \in { CoordinateNum(v)[a] \div CoordinateDen[a],
                        CoordinateNum(v)[a] \div CoordinateDen[a] + 1 } :
             2 * Abs(CoordinateNum(v)[a] - i * CoordinateDen[a]) < CoordinateDen[a]

\* The source index of v with i in place of its component on axis a.
IndexWith(v, a, i) ==
    << IF a = 1 THEN i ELSE NearestIndex(v, 1),
       IF a = 2 THEN i ELSE NearestIndex(v, 2),
       IF a = 3 THEN i ELSE NearestIndex(v, 3) >>

\* Target voxel v was filled as from source index idx: the label there, or
\* 0 when idx lies outside the source volume.
FilledFrom(v, idx) ==
    result_pixels.data[v] =
        IF idx \in Grid(segmentation.pixels.shape)
        THEN segmentation.pixels.data[idx]
        ELSE 0

Dimension(a) == segmentation.pixels.shape[a]

\* C28: a source coordinate exactly halfway between two indices is taken
\* to the even one; a coordinate of -1/2 is taken to index 0, and a
\* coordinate of dimension - 1/2 to dimension - 1 when the dimension is
\* odd and to dimension, which is out of bounds, when it is even.
C28_TiesRoundToEven ==
    DenseReturned =>
        \A v \in Grid(result_pixels.shape), a \in 1..3 :
            /\ IsTie(v, a) => FilledFrom(v, IndexWith(v, a, EvenNeighbour(v, a)))
            /\ IsHalfBelow(v, a, 0) => FilledFrom(v, IndexWith(v, a, 0))
            /\ IsHalfBelow(v, a, 1) => FilledFrom(v, IndexWith(v, a, 0))
            /\ IsHalfBelow(v, a, 2) => FilledFrom(v, IndexWith(v, a, 2))
            /\ IsHalfBelow(v, a, 3) => FilledFrom(v, IndexWith(v, a, 2))
            /\ IsHalfBelow(v, a, Dimension(a)) =>
                  IF Dimension(a) % 2 = 1
                  THEN FilledFrom(v, IndexWith(v, a, Dimension(a) - 1))
                  ELSE result_pixels.data[v] = 0

\* One call in which a coordinate of -1/2 was taken to index 0 and copied
\* from, one of 1/2 likewise, and one of 3/2 was taken to index 2 of a
\* dimension of 2 and left at 0.
C28_Witness ==
    /\ DenseReturned
    /\ Dimension(1) = 2
    /\ \E v \in Grid(result_pixels.shape) :
          /\ IsHalfBelow(v, 1, 0)
          /\ IndexWith(v, 1, 0) \in Grid(segmentation.pixels.shape)
          /\ result_pixels.data[v] = segmentation.pixels.data[IndexWith(v, 1, 0)]
          /\ result_pixels.data[v] # 0
    /\ \E v \in Grid(result_pixels.shape) :
          /\ IsHalfBelow(v, 1, 1)
          /\ IndexWith(v, 1, 0) \in Grid(segmentation.pixels.shape)
          /\ result_pixels.data[v] = segmentation.pixels.data[IndexWith(v, 1, 0)]
          /\ result_pixels.data[v] # segmentation.pixels.data[IndexWith(v, 1, 1)]
    /\ \E v \in Grid(result_pixels.shape) :
          /\ IsHalfBelow(v, 1, 2)
          /\ IndexWith(v, 1, 1) \in Grid(segmentation.pixels.shape)
          /\ result_pixels.data[v] = 0

(***************************************************************************)
(* Claims about failing workers of build_study_dict_concurrent (SpecIndex).*)
(***************************************************************************)
Succeeding == { w \in 1..MaxArchives : archive_paths[w].readable }

Raising == { w \in 1..MaxArchives : ~archive_paths[w].readable }

SucceededKeys == UNION { archive_paths[w].studies : w \in Succeeding }

\* C30: a worker whose archive cannot be read ends failed, never holds the
\* lock and merges nothing; the map holds keys of succeeding workers only;
\* once every worker has finished the function can return, whatever their
\* errors; it returns only then, and the keys of the map it returns are
\* the keys of all the succeeding workers.
C30_FailedWorkerContributesNothing ==
    /\ \A w \in Raising :
          /\ workers[w].pc \in {"submitted", "failed"}
          /\ workers[w].local_study_map = <<>>
          /\ lock # w
          /\ w \notin Range(merge_order)
    /\ \A key \in DOMAIN study_map :
          \E w \in Succeeding : study_map[key].file_path = archive_paths[w].path
    /\ ((\A w \in 1..MaxArchives : workers[w].pc \in {"done", "failed"})
           /\ ~index_result.produced) => ENABLED ReturnStudyMap
    /\ index_result.produced =>
          /\ \A w \in Succeeding : workers[w].pc = "done"
          /\ \A w \in Raising : workers[w].pc = "failed" /\ workers[w].error # "ok"
          /\ DOMAIN index_result.map = SucceededKeys

\* The first worker raised, the second merged two studies, and the function
\* returned both.
C30_Witness ==
    /\ index_result.produced
    /\ workers[1].pc = "failed"
    /\ workers[2].pc = "done"
    /\ DOMAIN index_result.map = StudyIds

====
